---- MODULE Spec2Model ----
(***************************************************************************)
(* Rule-table evaluation engine of the billing system: the XLSX rule       *)
(* cache (XLSXDMNProcessor.load_rule_file / reload_rules), the pyDMNrules  *)
(* engine cache (BillingDMNEngine.get_engine / reload_all_rules), the      *)
(* Redis result cache in front of execute_rule, and the evaluators         *)
(* (weight class, tax, service determination, price ranking).              *)
(*                                                                         *)
(* Python dicts are functions whose DOMAIN is the set of keys.  Python     *)
(* None is the record None for tables and the string "None" for cells.     *)
(***************************************************************************)
EXTENDS Integers, Sequences, FiniteSets, TLC

VARIABLES
    fs,             \* the rules directory: file name -> [exists, mtime, grid, ok]
    pyDMNrules,     \* whether the pyDMNrules import succeeded (engine.py:16-20)
    rule_cache,     \* XLSXDMNProcessor._rule_cache: file name -> parsed rule data
    file_mtimes,    \* XLSXDMNProcessor._file_mtimes: file name -> mtime stored at load
    engines,        \* BillingDMNEngine._engines: rule name -> pyDMNrules.DMN instance
    last_modified,  \* BillingDMNEngine._last_modified: rule name -> mtime stored at load
    loads,          \* number of tables built so far (the next table's identity)
    last,           \* the operation that ran last and what it returned
    pc,             \* caller thread -> the statement of load_rule_file it is at
    loc,            \* caller thread -> its local variables
    mtime_inst,     \* file name -> the table whose load wrote _file_mtimes[file]
    kind,           \* which evaluator the table under evaluation belongs to
    table,          \* the rules (or price rows) of the table under evaluation
    ctx,            \* the context (arguments) the evaluator is called with
    result,         \* [done, value]: whether the evaluator ran and what it returned
    redis,          \* the Redis store: cache key -> [value, expires]
    redis_client,   \* "absent" (redis_client is None), "up", or "down" (calls raise)
    now             \* the time in seconds, as Redis counts it for expiry

cacheVars == <<fs, pyDMNrules, rule_cache, file_mtimes, engines, last_modified, loads, last>>
threadVars == <<pc, loc, mtime_inst>>
evalVars == <<kind, table, ctx, result>>
redisVars == <<redis, redis_client, now>>

vars == <<cacheVars, threadVars, evalVars, redisVars>>

\* what the sequential rule-cache operations leave alone
notCache == <<threadVars, evalVars, redisVars>>
\* what a statement of a caller thread leaves alone besides the caches
notThread == <<evalVars, redisVars>>
\* what an evaluator leaves alone
notEval == <<cacheVars, threadVars, redisVars>>

----------------------------------------------------------------------------
(* Bounds of the model *)

\* modification times a file can carry
MaxMtime == 2
\* distinct grid contents a file can hold
MaxGrid == 2
\* tables built in one behaviour
MaxLoads == 3

\* the rule files of the rules directory
Files == {"f1"}
\* the threads that call into the rule cache at the same time
Threads == {"t1", "t2"}
Mtimes == 1..MaxMtime
Grids == 1..MaxGrid

----------------------------------------------------------------------------
(* Python values *)

\* Python None where a table (rule data, DMN engine) is expected
None == [grid |-> 0, inst |-> 0]

\* dict.get(key, default)
DictGet(d, k, default) == IF k \in DOMAIN d THEN d[k] ELSE default

\* d[k] = v
DictSet(d, k, v) == [x \in DOMAIN d \cup {k} |-> IF x = k THEN v ELSE d[x]]

\* dict.clear() leaves the empty dict
EmptyDict == [x \in {} |-> None]

\* the table object a successful load of file f builds: the grid read from
\* the file, and the identity of the new object
NewTable(f, n) == [grid |-> fs[f].grid, inst |-> n + 1]

----------------------------------------------------------------------------
(* Python strings.  A string is a TLA+ string; s[i] is SubSeq(s, i+1, i+1). *)

Char(s, i) == SubSeq(s, i, i)

Digits == {"0", "1", "2", "3", "4", "5", "6", "7", "8", "9"}

DigitVal(ch) ==
    CASE ch = "0" -> 0 [] ch = "1" -> 1 [] ch = "2" -> 2 [] ch = "3" -> 3
      [] ch = "4" -> 4 [] ch = "5" -> 5 [] ch = "6" -> 6 [] ch = "7" -> 7
      [] ch = "8" -> 8 [] ch = "9" -> 9

\* str.lstrip(chars), str.rstrip(chars), str.strip(chars)
RECURSIVE LStripChars(_, _)
LStripChars(s, chars) ==
    IF Len(s) > 0 /\ Char(s, 1) \in chars
    THEN LStripChars(SubSeq(s, 2, Len(s)), chars)
    ELSE s

RECURSIVE RStripChars(_, _)
RStripChars(s, chars) ==
    IF Len(s) > 0 /\ Char(s, Len(s)) \in chars
    THEN RStripChars(SubSeq(s, 1, Len(s) - 1), chars)
    ELSE s

StripChars(s, chars) == RStripChars(LStripChars(s, chars), chars)

\* str.strip(): the whitespace of the cells modelled is the blank
Strip(s) == StripChars(s, {" "})

\* str.startswith(prefix)
StartsWith(s, prefix) ==
    Len(s) >= Len(prefix) /\ SubSeq(s, 1, Len(prefix)) = prefix

\* str.find(sub) + 1: the first position sub occurs at, 0 when it does not
Find(s, sub) ==
    LET at == {i \in 1..(Len(s) - Len(sub) + 1) : SubSeq(s, i, i + Len(sub) - 1) = sub}
    IN IF at = {} THEN 0 ELSE CHOOSE i \in at : \A j \in at : i <= j

\* sub in s
Contains(s, sub) == Find(s, sub) # 0

\* str.split(sep)
RECURSIVE Split(_, _)
Split(s, sep) ==
    LET i == Find(s, sep)
    IN IF i = 0
       THEN <<s>>
       ELSE <<SubSeq(s, 1, i - 1)>> \o Split(SubSeq(s, i + Len(sep), Len(s)), sep)

\* the value of a string of digits
RECURSIVE DigitsVal(_)
DigitsVal(s) ==
    IF Len(s) = 0 THEN 0
    ELSE 10 * DigitsVal(SubSeq(s, 1, Len(s) - 1)) + DigitVal(Char(s, Len(s)))

IsDigits(s) == \A i \in 1..Len(s) : Char(s, i) \in Digits

\* float(s) for decimal literals (sign, digits, at most one point): ok is
\* FALSE where Python raises ValueError; val is the value in thousandths, so
\* that a weight in tons compares exactly with one in kilograms.  float()
\* strips surrounding whitespace itself.
ParseFloat(s) ==
    LET t == Strip(s)
        neg == StartsWith(t, "-")
        body == IF StartsWith(t, "-") \/ StartsWith(t, "+")
                THEN SubSeq(t, 2, Len(t)) ELSE t
        dot == Find(body, ".")
        ip == IF dot = 0 THEN body ELSE SubSeq(body, 1, dot - 1)
        fp == IF dot = 0 THEN "" ELSE SubSeq(body, dot + 1, Len(body))
        fp3 == SubSeq(fp \o "000", 1, 3)
        ok == /\ IsDigits(ip) /\ IsDigits(fp)
              /\ Len(ip) + Len(fp) > 0
              /\ Len(fp) <= 3
        mag == DigitsVal(ip) * 1000 + DigitsVal(fp3)
    IN [ok |-> ok, val |-> IF ~ok THEN 0 ELSE IF neg THEN 0 - mag ELSE mag]

\* Python None where a cell or a string result is expected
NoneStr == "None"

----------------------------------------------------------------------------
(* XLSXDMNProcessor: the XLSX rule cache *)

\* what a call of load_rule_file leaves: the two dicts, the number of tables
\* built, the value returned, the files that could not be loaded, and the
\* mtime the call compared (current_mtime, -1 when it never read one)
LoadOutcome(c, m, n, ret, failed, fp) ==
    [cache |-> c, mtimes |-> m, n |-> n, ret |-> ret, failed |-> failed, fp |-> fp]

\* load_rule_file without the cache test: every call loads the workbook
load_rule_file_always(c, m, n, f, force_reload, statOk) ==
    IF ~fs[f].exists
    THEN LoadOutcome(c, m, n, None, {f}, -1)
    ELSE LET current_mtime == IF statOk THEN fs[f].mtime ELSE 0
         IN IF fs[f].ok
            THEN LoadOutcome(DictSet(c, f, NewTable(f, n)), DictSet(m, f, current_mtime),
                             n + 1, NewTable(f, n), {}, current_mtime)
            ELSE LoadOutcome(c, m, n, None, {f}, current_mtime)

\* load_rule_file whose cache test ignores the mtime: a cached entry is
\* served however new the file is
load_rule_file_stale(c, m, n, f, force_reload, statOk) ==
    IF ~fs[f].exists
    THEN LoadOutcome(c, m, n, None, {f}, -1)
    ELSE LET current_mtime == IF statOk THEN fs[f].mtime ELSE 0
         IN IF ~force_reload /\ f \in DOMAIN c
            THEN LoadOutcome(c, m, n, c[f], {}, current_mtime)
            ELSE IF fs[f].ok
                 THEN LoadOutcome(DictSet(c, f, NewTable(f, n)),
                                  DictSet(m, f, current_mtime),
                                  n + 1, NewTable(f, n), {}, current_mtime)
                 ELSE LoadOutcome(c, m, n, None, {f}, current_mtime)

\* load_rule_file(file_name, force_reload) on the dicts c (_rule_cache) and
\* m (_file_mtimes) with n tables built so far; statOk: file_path.stat() did
\* not raise (current_mtime is 0 when it did).
load_rule_file(c, m, n, f, force_reload, statOk) ==
    IF ~fs[f].exists
    THEN LoadOutcome(c, m, n, None, {f}, -1)
    ELSE LET current_mtime == IF statOk THEN fs[f].mtime ELSE 0
         IN IF /\ ~force_reload
               /\ f \in DOMAIN c
               /\ current_mtime <= DictGet(m, f, 0)
            THEN LoadOutcome(c, m, n, c[f], {}, current_mtime)
            ELSE IF fs[f].ok
                 THEN LoadOutcome(DictSet(c, f, NewTable(f, n)),
                                  DictSet(m, f, current_mtime),
                                  n + 1, NewTable(f, n), {}, current_mtime)
                 ELSE LoadOutcome(c, m, n, None, {f}, current_mtime)

\* the loop of reload_rules over cached_files; results: file name -> whether
\* load_rule_file returned rule data.  The files are independent of each
\* other, so the order of the loop decides only which table is built first.
RECURSIVE reload_loop(_, _, _, _, _, _, _, _)
reload_loop(c, m, n, todo, force, statOk, results, failed) ==
    IF todo = {}
    THEN [cache |-> c, mtimes |-> m, n |-> n, results |-> results, failed |-> failed]
    ELSE LET f == CHOOSE x \in todo : TRUE
             r == load_rule_file(c, m, n, f, force, statOk[f])
         IN reload_loop(r.cache, r.mtimes, r.n, todo \ {f}, force, statOk,
                        DictSet(results, f, r.ret # None), failed \cup r.failed)

\* reload_rules(force): with force both dicts are cleared before the loop
reload_rules(c, m, n, force, statOk) ==
    LET cached_files == DOMAIN c
    IN IF force
       THEN reload_loop(EmptyDict, [x \in {} |-> 0], n, cached_files, force, statOk,
                        [x \in {} |-> FALSE], {})
       ELSE reload_loop(c, m, n, cached_files, force, statOk,
                        [x \in {} |-> FALSE], {})

----------------------------------------------------------------------------
(* BillingDMNEngine: the pyDMNrules engine cache *)

\* _is_rule_modified(rule_name): no rule file -> False
is_rule_modified(lm, r) ==
    IF ~fs[r].exists THEN FALSE ELSE fs[r].mtime > DictGet(lm, r, 0)

\* _load_dmn_rule(rule_name): None when the file is missing, when pyDMNrules
\* is not importable (pyDMNrules.DMN() raises) or when the load reports
\* errors; otherwise the mtime is stored and the new engine returned
load_dmn_rule(lm, n, r) ==
    IF ~fs[r].exists \/ ~pyDMNrules \/ ~fs[r].ok
    THEN [lm |-> lm, n |-> n, ret |-> None]
    ELSE [lm |-> DictSet(lm, r, fs[r].mtime), n |-> n + 1, ret |-> NewTable(r, n)]

\* get_engine(rule_name, force_reload)
get_engine(e, lm, n, r, force_reload) ==
    IF force_reload \/ r \notin DOMAIN e \/ is_rule_modified(lm, r)
    THEN LET l == load_dmn_rule(lm, n, r)
         IN IF l.ret # None
            THEN [engines |-> DictSet(e, r, l.ret), lm |-> l.lm, n |-> l.n,
                  ret |-> l.ret, failed |-> {}]
            ELSE [engines |-> e, lm |-> l.lm, n |-> l.n, ret |-> None, failed |-> {r}]
    ELSE [engines |-> e, lm |-> lm, n |-> n, ret |-> DictGet(e, r, None), failed |-> {}]

\* reload_all_rules(): every loaded rule is loaded again; a failed load keeps
\* the engine that was there
RECURSIVE reload_all_loop(_, _, _, _, _, _)
reload_all_loop(e, lm, n, todo, results, failed) ==
    IF todo = {}
    THEN [engines |-> e, lm |-> lm, n |-> n, results |-> results, failed |-> failed]
    ELSE LET r == CHOOSE x \in todo : TRUE
             l == load_dmn_rule(lm, n, r)
         IN IF l.ret # None
            THEN reload_all_loop(DictSet(e, r, l.ret), l.lm, l.n, todo \ {r},
                                 DictSet(results, r, TRUE), failed)
            ELSE reload_all_loop(e, l.lm, l.n, todo \ {r},
                                 DictSet(results, r, FALSE), failed \cup {r})

reload_all_rules(e, lm, n) ==
    reload_all_loop(e, lm, n, DOMAIN e, [x \in {} |-> FALSE], {})

----------------------------------------------------------------------------
(* The operations of the rule caches, one action per call *)

\* the locals of load_rule_file: file_name, current_mtime, rule_data, and
\* whether the call found a cached entry it takes to be out of date
NoLocals == [file |-> "", current_mtime |-> 0, rule_data |-> None, stale |-> FALSE]

\* what `last` records of an operation
Op(op, f, force, ret, failed, fp, built, status) ==
    [op |-> op, file |-> f, force |-> force, ret |-> ret, failed |-> failed,
     fp |-> fp, built |-> built, status |-> status]

\* no caller is inside load_rule_file
InitThreads ==
    /\ pc = [t \in Threads |-> "idle"]
    /\ loc = [t \in Threads |-> NoLocals]
    /\ mtime_inst = [f \in Files |-> 0]

\* no evaluator has been called
NoResult == [done |-> FALSE, value |-> NoneStr]

NoEvaluation ==
    /\ kind = "none"
    /\ table = <<>>
    /\ ctx = <<>>
    /\ result = NoResult

\* a BillingDMNEngine constructed without a Redis client
NoRedis ==
    /\ redis = EmptyDict
    /\ redis_client = "absent"
    /\ now = 0

\* a fresh XLSXDMNProcessor and BillingDMNEngine: nothing is loaded
NothingLoaded ==
    /\ fs = [f \in Files |-> [exists |-> TRUE, mtime |-> 1, grid |-> 1, ok |-> TRUE]]
    /\ pyDMNrules \in BOOLEAN
    /\ rule_cache = EmptyDict
    /\ file_mtimes = [x \in {} |-> 0]
    /\ engines = EmptyDict
    /\ last_modified = [x \in {} |-> 0]
    /\ loads = 0
    /\ last = Op("init", "", FALSE, None, {}, -1, 0, 0)

InitCache ==
    /\ NothingLoaded
    /\ InitThreads
    /\ NoEvaluation
    /\ NoRedis

\* the rule author saves a file: new content (possibly a workbook that does
\* not parse) and whatever mtime the save leaves
ModifyFile(f) ==
    /\ \E mt \in Mtimes, g \in Grids, ok \in BOOLEAN :
          fs' = [fs EXCEPT ![f] = [exists |-> TRUE, mtime |-> mt, grid |-> g, ok |-> ok]]
    /\ last' = Op("env", f, FALSE, None, {}, -1, 0, 0)
    /\ UNCHANGED <<pyDMNrules, rule_cache, file_mtimes, engines, last_modified, loads, notCache>>

\* the rule file is removed
DeleteFile(f) ==
    /\ fs[f].exists
    /\ fs' = [fs EXCEPT ![f] = [exists |-> FALSE, mtime |-> 1, grid |-> 1, ok |-> TRUE]]
    /\ last' = Op("env", f, FALSE, None, {}, -1, 0, 0)
    /\ UNCHANGED <<pyDMNrules, rule_cache, file_mtimes, engines, last_modified, loads, notCache>>

\* XLSXDMNProcessor.load_rule_file(f, force_reload)
LoadRuleFile(f, force_reload) ==
    \E statOk \in BOOLEAN :
        LET r == load_rule_file(rule_cache, file_mtimes, loads, f, force_reload, statOk)
        IN /\ r.n <= MaxLoads
           /\ rule_cache' = r.cache
           /\ file_mtimes' = r.mtimes
           /\ loads' = r.n
           /\ last' = Op("load_rule_file", f, force_reload, r.ret, r.failed, r.fp, r.n - loads, 0)
           /\ UNCHANGED <<fs, pyDMNrules, engines, last_modified, notCache>>

\* XLSXDMNProcessor.reload_rules(force)
ReloadRules(force) ==
    \E statOk \in [Files -> BOOLEAN] :
        LET r == reload_rules(rule_cache, file_mtimes, loads, force, statOk)
        IN /\ r.n <= MaxLoads
           /\ rule_cache' = r.cache
           /\ file_mtimes' = r.mtimes
           /\ loads' = r.n
           /\ last' = Op("reload_rules", "", force, None, r.failed, -1, r.n - loads, 0)
           /\ UNCHANGED <<fs, pyDMNrules, engines, last_modified, notCache>>

\* BillingDMNEngine.get_engine(r, force_reload); POST /dmn/reload/{rule_name}
\* is the call with force_reload=True
GetEngine(r, force_reload) ==
    LET g == get_engine(engines, last_modified, loads, r, force_reload)
    IN /\ g.n <= MaxLoads
       /\ engines' = g.engines
       /\ last_modified' = g.lm
       /\ loads' = g.n
       /\ last' = Op("get_engine", r, force_reload, g.ret, g.failed, -1, g.n - loads, 0)
       /\ UNCHANGED <<fs, pyDMNrules, rule_cache, file_mtimes, notCache>>

\* BillingDMNEngine.reload_all_rules(); POST /dmn/reload
ReloadAllRules ==
    LET g == reload_all_rules(engines, last_modified, loads)
    IN /\ g.n <= MaxLoads
       /\ engines' = g.engines
       /\ last_modified' = g.lm
       /\ loads' = g.n
       /\ last' = Op("reload_all_rules", "", TRUE, None, g.failed, -1, g.n - loads, 0)
       /\ UNCHANGED <<fs, pyDMNrules, rule_cache, file_mtimes, notCache>>

\* DELETE /dmn/cache (f = "") and DELETE /dmn/cache/{rule_name}: both call
\* dmn_engine.clear_cache; BillingDMNEngine defines no clear_cache, so the
\* call raises AttributeError, which the handler answers with status 500.
\* No cache is touched.
ClearCache(f) ==
    /\ last' = Op("clear_cache", f, FALSE, None, {}, -1, 0, 500)
    /\ UNCHANGED <<fs, pyDMNrules, rule_cache, file_mtimes, engines, last_modified, loads, notCache>>

Next ==
    \/ \E f \in Files : ModifyFile(f)
    \/ \E f \in Files : DeleteFile(f)
    \/ \E f \in Files, force \in BOOLEAN : LoadRuleFile(f, force)
    \/ \E force \in BOOLEAN : ReloadRules(force)
    \/ \E r \in Files, force \in BOOLEAN : GetEngine(r, force)
    \/ ReloadAllRules
    \/ \E f \in Files \cup {""} : ClearCache(f)

Spec == InitCache /\ [][Next]_vars

----------------------------------------------------------------------------
(* load_rule_file statement by statement, called from several threads.      *)
(* The class takes no lock, so the callers interleave between statements.   *)

\* the statements at which a caller has decided to load and has not yet
\* stored both results
InFlight == {"load", "store_table", "store_mtime"}

\* a thread calls load_rule_file(f) (force_reload=False)
Call(t, f) ==
    /\ pc[t] = "idle"
    /\ pc' = [pc EXCEPT ![t] = "exists"]
    /\ loc' = [loc EXCEPT ![t] = [NoLocals EXCEPT !.file = f]]
    /\ UNCHANGED <<notThread, cacheVars, mtime_inst>>

\* line 31: if not file_path.exists(): return None
StepExists(t) ==
    /\ pc[t] = "exists"
    /\ pc' = [pc EXCEPT ![t] = IF fs[loc[t].file].exists THEN "stat" ELSE "idle"]
    /\ UNCHANGED <<notThread, cacheVars, loc, mtime_inst>>

\* lines 36-40: current_mtime = file_path.stat().st_mtime, 0 when stat raises
\* (the file was removed after the exists test)
StepStat(t) ==
    /\ pc[t] = "stat"
    /\ pc' = [pc EXCEPT ![t] = "check_in"]
    /\ loc' = [loc EXCEPT ![t].current_mtime =
                  IF fs[loc[t].file].exists THEN fs[loc[t].file].mtime ELSE 0]
    /\ UNCHANGED <<notThread, cacheVars, mtime_inst>>

\* line 43: if not force_reload and file_name in self._rule_cache
StepCheckIn(t) ==
    /\ pc[t] = "check_in"
    /\ pc' = [pc EXCEPT ![t] =
                 IF loc[t].file \in DOMAIN rule_cache THEN "check_mtime" ELSE "load"]
    /\ UNCHANGED <<notThread, cacheVars, loc, mtime_inst>>

\* lines 44-45: cached_mtime = self._file_mtimes.get(file_name, 0);
\* if current_mtime <= cached_mtime
StepCheckMtime(t) ==
    /\ pc[t] = "check_mtime"
    /\ IF loc[t].current_mtime <= DictGet(file_mtimes, loc[t].file, 0)
       THEN /\ pc' = [pc EXCEPT ![t] = "return_cached"]
            /\ loc' = loc
       ELSE /\ pc' = [pc EXCEPT ![t] = "load"]
            /\ loc' = [loc EXCEPT ![t].stale = TRUE]
    /\ UNCHANGED <<notThread, cacheVars, mtime_inst>>

\* line 47: return self._rule_cache[file_name]
StepReturnCached(t) ==
    /\ pc[t] = "return_cached"
    /\ pc' = [pc EXCEPT ![t] = "idle"]
    /\ loc' = [loc EXCEPT ![t] = NoLocals]
    /\ UNCHANGED <<notThread, cacheVars, mtime_inst>>

\* lines 53-54: the workbook is read and parsed; an exception returns None
StepLoad(t) ==
    /\ pc[t] = "load"
    /\ LET f == loc[t].file
       IN IF fs[f].exists /\ fs[f].ok
          THEN /\ loads < MaxLoads
               /\ loc' = [loc EXCEPT ![t].rule_data = NewTable(f, loads)]
               /\ loads' = loads + 1
               /\ pc' = [pc EXCEPT ![t] = "store_table"]
          ELSE /\ loc' = [loc EXCEPT ![t] = NoLocals]
               /\ loads' = loads
               /\ pc' = [pc EXCEPT ![t] = "idle"]
    /\ UNCHANGED <<notThread, fs, pyDMNrules, rule_cache, file_mtimes, engines, last_modified,
                   last, mtime_inst>>

\* line 55: self._rule_cache[file_name] = rule_data
StepStoreTable(t) ==
    /\ pc[t] = "store_table"
    /\ rule_cache' = DictSet(rule_cache, loc[t].file, loc[t].rule_data)
    /\ pc' = [pc EXCEPT ![t] = "store_mtime"]
    /\ UNCHANGED <<notThread, fs, pyDMNrules, file_mtimes, engines, last_modified, loads, last,
                   loc, mtime_inst>>

\* line 56: self._file_mtimes[file_name] = current_mtime; line 58: return
StepStoreMtime(t) ==
    /\ pc[t] = "store_mtime"
    /\ file_mtimes' = DictSet(file_mtimes, loc[t].file, loc[t].current_mtime)
    /\ mtime_inst' = [mtime_inst EXCEPT ![loc[t].file] = loc[t].rule_data.inst]
    /\ pc' = [pc EXCEPT ![t] = "idle"]
    /\ loc' = [loc EXCEPT ![t] = NoLocals]
    /\ UNCHANGED <<notThread, fs, pyDMNrules, rule_cache, engines, last_modified, loads, last>>

NextConc ==
    \/ \E f \in Files : ModifyFile(f)
    \/ \E f \in Files : DeleteFile(f)
    \/ \E t \in Threads, f \in Files : Call(t, f)
    \/ \E t \in Threads : StepExists(t)
    \/ \E t \in Threads : StepStat(t)
    \/ \E t \in Threads : StepCheckIn(t)
    \/ \E t \in Threads : StepCheckMtime(t)
    \/ \E t \in Threads : StepReturnCached(t)
    \/ \E t \in Threads : StepLoad(t)
    \/ \E t \in Threads : StepStoreTable(t)
    \/ \E t \in Threads : StepStoreMtime(t)

\* the engine cache plays no part here, so pyDMNrules is held at one value
InitConc == InitCache /\ pyDMNrules = TRUE

SpecConc == InitConc /\ [][NextConc]_vars

(* get_engine statement by statement, and the callers of both caches while *)
(* the rule author saves the file                                           *)

\* the rule author saves the file with other content; the save leaves a
\* newer modification time
SaveFile(f) ==
    /\ fs[f].exists
    /\ fs[f].mtime < MaxMtime
    /\ \E g \in Grids \ {fs[f].grid} :
          fs' = [fs EXCEPT ![f] = [exists |-> TRUE, mtime |-> fs[f].mtime + 1,
                                   grid |-> g, ok |-> TRUE]]
    /\ last' = Op("env", f, FALSE, None, {}, -1, 0, 0)
    /\ UNCHANGED <<pyDMNrules, rule_cache, file_mtimes, engines, last_modified, loads, notCache>>

\* a thread calls get_engine(f) (force_reload=False)
CallGetEngine(t, f) ==
    /\ pc[t] = "idle"
    /\ pc' = [pc EXCEPT ![t] = "engine_check"]
    /\ loc' = [loc EXCEPT ![t] = [NoLocals EXCEPT !.file = f]]
    /\ UNCHANGED <<notThread, cacheVars, mtime_inst>>

\* line 172: rule_name not in self._engines or self._is_rule_modified(rule_name);
\* line 179 when neither holds
StepEngineCheck(t) ==
    /\ pc[t] = "engine_check"
    /\ IF loc[t].file \notin DOMAIN engines \/ is_rule_modified(last_modified, loc[t].file)
       THEN pc' = [pc EXCEPT ![t] = "engine_load"] /\ loc' = loc
       ELSE pc' = [pc EXCEPT ![t] = "idle"] /\ loc' = [loc EXCEPT ![t] = NoLocals]
    /\ UNCHANGED <<notThread, cacheVars, mtime_inst>>

\* _load_dmn_rule, lines 114-125: dmn_engine.load reads the file
StepEngineLoad(t) ==
    /\ pc[t] = "engine_load"
    /\ LET f == loc[t].file
       IN IF fs[f].exists /\ pyDMNrules /\ fs[f].ok
          THEN /\ loads < MaxLoads
               /\ loc' = [loc EXCEPT ![t].rule_data = NewTable(f, loads)]
               /\ loads' = loads + 1
               /\ pc' = [pc EXCEPT ![t] = "engine_stat"]
          ELSE /\ loc' = [loc EXCEPT ![t] = NoLocals]
               /\ loads' = loads
               /\ pc' = [pc EXCEPT ![t] = "idle"]
    /\ UNCHANGED <<notThread, fs, pyDMNrules, rule_cache, file_mtimes, engines, last_modified,
                   last, mtime_inst>>

\* _load_dmn_rule, line 128: self._last_modified[rule_name] =
\* rule_path.stat().st_mtime, read after the load
StepEngineStat(t) ==
    /\ pc[t] = "engine_stat"
    /\ last_modified' = DictSet(last_modified, loc[t].file, fs[loc[t].file].mtime)
    /\ pc' = [pc EXCEPT ![t] = "engine_store"]
    /\ UNCHANGED <<notThread, fs, pyDMNrules, rule_cache, file_mtimes, engines, loads, last,
                   loc, mtime_inst>>

\* get_engine, lines 174-175 and 179: self._engines[rule_name] = engine
StepEngineStore(t) ==
    /\ pc[t] = "engine_store"
    /\ engines' = DictSet(engines, loc[t].file, loc[t].rule_data)
    /\ pc' = [pc EXCEPT ![t] = "idle"]
    /\ loc' = [loc EXCEPT ![t] = NoLocals]
    /\ UNCHANGED <<notThread, fs, pyDMNrules, rule_cache, file_mtimes, last_modified, loads,
                   last, mtime_inst>>

NextRace ==
    \/ \E f \in Files : SaveFile(f)
    \/ \E t \in Threads, f \in Files : Call(t, f)
    \/ \E t \in Threads : StepExists(t)
    \/ \E t \in Threads : StepStat(t)
    \/ \E t \in Threads : StepCheckIn(t)
    \/ \E t \in Threads : StepCheckMtime(t)
    \/ \E t \in Threads : StepReturnCached(t)
    \/ \E t \in Threads : StepLoad(t)
    \/ \E t \in Threads : StepStoreTable(t)
    \/ \E t \in Threads : StepStoreMtime(t)
    \/ \E t \in Threads, f \in Files : CallGetEngine(t, f)
    \/ \E t \in Threads : StepEngineCheck(t)
    \/ \E t \in Threads : StepEngineLoad(t)
    \/ \E t \in Threads : StepEngineStat(t)
    \/ \E t \in Threads : StepEngineStore(t)

SpecRace == InitConc /\ [][NextRace]_vars

----------------------------------------------------------------------------
(* XLSXDMNProcessor: rules extracted from a sheet, weight classification *)

\* rules of a table under evaluation, cells of a row
MaxRules == 3

Min(S) == CHOOSE x \in S : \A y \in S : x <= y

\* the sequences over S of length at most n
SeqsUpTo(S, n) == UNION {[1..k -> S] : k \in 0..n}

\* _parse_sheet keeps a data row unless every cell of it is empty
RECURSIVE parse_rows(_)
parse_rows(rows) ==
    IF Len(rows) = 0
    THEN <<>>
    ELSE (IF \E j \in 1..Len(Head(rows)) : Head(rows)[j] # ""
          THEN <<Head(rows)>> ELSE <<>>) \o parse_rows(Tail(rows))

\* _extract_rules_from_sheet: rule i of the kept rows maps each header to the
\* row's cell under it, for the non-empty cells only; conditions and outputs
\* are the same mapping
extract_rules(headers, rows) ==
    [i \in 1..Len(rows) |->
        LET cols == {j \in 1..Len(headers) : j <= Len(rows[i]) /\ rows[i][j] # ""}
            cells == [h \in {headers[j] : j \in cols} |->
                         LET j == Min({k \in cols : headers[k] = h})
                         IN StripChars(rows[i][j], {"\""})]
        IN [rule_id |-> i, conditions |-> cells, outputs |-> cells]]

preisraster_fields == <<"Preisraster", "Price Grid", "Grid">>
length_fields == <<"Länge", "Laenge", "Length", "Container Length">>
weight_fields == <<"Gewicht", "Weight", "GrossWeight", "Gross Weight">>
class_fields == <<"WeightClass", "Weight Class", "Gewichtsklasse", "Classification">>

Quotes == {"\"", "'"}

\* the first of the names a dict has as a key, 0 when it has none of them
FirstPresent(fields, d) ==
    LET P == {i \in 1..Len(fields) : fields[i] \in DOMAIN d}
    IN IF P = {} THEN 0 ELSE Min(P)

\* a reading of the cell that tries the one-character operators first
evaluate_weight_condition_short_first(actual_weight, rule_condition) ==
    IF rule_condition = "-" \/ rule_condition = ""
    THEN TRUE
    ELSE LET cond == Strip(rule_condition)
             cmp(n, op(_, _)) ==
                 LET threshold == ParseFloat(Strip(SubSeq(cond, n + 1, Len(cond))))
                 IN threshold.ok /\ op(actual_weight, threshold.val)
             le(a, b) == a <= b
             ge(a, b) == a >= b
             lt(a, b) == a < b
             gt(a, b) == a > b
             eq(a, b) == a = b
         IN IF Contains(cond, "..")
            THEN LET left_inclusive == Char(cond, 1) = "["
                     right_inclusive == Char(cond, Len(cond)) = "]"
                     parts == Split(StripChars(cond, {"[", "]"}), "..")
                 IN IF Len(parts) # 2
                    THEN FALSE
                    ELSE LET lower == ParseFloat(Strip(parts[1]))
                             upper == ParseFloat(Strip(parts[2]))
                         IN /\ lower.ok
                            /\ upper.ok
                            /\ IF left_inclusive THEN lower.val <= actual_weight
                                                 ELSE lower.val < actual_weight
                            /\ IF right_inclusive THEN actual_weight <= upper.val
                                                  ELSE actual_weight < upper.val
            ELSE IF StartsWith(cond, "<") THEN cmp(1, lt)
            ELSE IF StartsWith(cond, ">") THEN cmp(1, gt)
            ELSE IF StartsWith(cond, "<=") THEN cmp(2, le)
            ELSE IF StartsWith(cond, ">=") THEN cmp(2, ge)
            ELSE IF StartsWith(cond, "=") THEN cmp(1, eq)
            ELSE cmp(0, eq)

\* a reading of a range that takes both sides' inclusivity from the opening
\* bracket
evaluate_weight_condition_one_bracket(actual_weight, rule_condition) ==
    IF rule_condition = "-" \/ rule_condition = ""
    THEN TRUE
    ELSE LET cond == Strip(rule_condition)
             cmp(n, op(_, _)) ==
                 LET threshold == ParseFloat(Strip(SubSeq(cond, n + 1, Len(cond))))
                 IN threshold.ok /\ op(actual_weight, threshold.val)
             le(a, b) == a <= b
             ge(a, b) == a >= b
             lt(a, b) == a < b
             gt(a, b) == a > b
             eq(a, b) == a = b
         IN IF Contains(cond, "..")
            THEN LET left_inclusive == Char(cond, 1) = "["
                     right_inclusive == Char(cond, 1) = "["
                     parts == Split(StripChars(cond, {"[", "]"}), "..")
                 IN IF Len(parts) # 2
                    THEN FALSE
                    ELSE LET lower == ParseFloat(Strip(parts[1]))
                             upper == ParseFloat(Strip(parts[2]))
                         IN /\ lower.ok
                            /\ upper.ok
                            /\ IF left_inclusive THEN lower.val <= actual_weight
                                                 ELSE lower.val < actual_weight
                            /\ IF right_inclusive THEN actual_weight <= upper.val
                                                  ELSE actual_weight < upper.val
            ELSE IF StartsWith(cond, "<=") THEN cmp(2, le)
            ELSE IF StartsWith(cond, ">=") THEN cmp(2, ge)
            ELSE IF StartsWith(cond, "<") THEN cmp(1, lt)
            ELSE IF StartsWith(cond, ">") THEN cmp(1, gt)
            ELSE IF StartsWith(cond, "=") THEN cmp(1, eq)
            ELSE cmp(0, eq)

\* _evaluate_weight_condition: actual_weight in thousandths of a ton (the
\* float gross_weight / 1000.0 of a whole number of kilograms), rule_condition
\* the text of the cell.  A float() that raises ValueError gives False.
evaluate_weight_condition(actual_weight, rule_condition) ==
    IF rule_condition = "-" \/ rule_condition = ""
    THEN TRUE
    ELSE LET cond == Strip(rule_condition)
             cmp(n, op(_, _)) ==
                 LET threshold == ParseFloat(Strip(SubSeq(cond, n + 1, Len(cond))))
                 IN threshold.ok /\ op(actual_weight, threshold.val)
             le(a, b) == a <= b
             ge(a, b) == a >= b
             lt(a, b) == a < b
             gt(a, b) == a > b
             eq(a, b) == a = b
         IN IF Contains(cond, "..")
            THEN LET left_inclusive == Char(cond, 1) = "["
                     right_inclusive == Char(cond, Len(cond)) = "]"
                     parts == Split(StripChars(cond, {"[", "]"}), "..")
                 IN IF Len(parts) # 2
                    THEN FALSE
                    ELSE LET lower == ParseFloat(Strip(parts[1]))
                             upper == ParseFloat(Strip(parts[2]))
                         IN /\ lower.ok
                            /\ upper.ok
                            /\ IF left_inclusive THEN lower.val <= actual_weight
                                                 ELSE lower.val < actual_weight
                            /\ IF right_inclusive THEN actual_weight <= upper.val
                                                  ELSE actual_weight < upper.val
            ELSE IF StartsWith(cond, "<=") THEN cmp(2, le)
            ELSE IF StartsWith(cond, ">=") THEN cmp(2, ge)
            ELSE IF StartsWith(cond, "<") THEN cmp(1, lt)
            ELSE IF StartsWith(cond, ">") THEN cmp(1, gt)
            ELSE IF StartsWith(cond, "=") THEN cmp(1, eq)
            ELSE cmp(0, eq)

\* the three condition checks of evaluate_weight_class on one rule
preisraster_match(rule, preisraster) ==
    LET i == FirstPresent(preisraster_fields, rule.conditions)
    IN IF i = 0
       THEN TRUE
       ELSE LET rule_preisraster == StripChars(rule.conditions[preisraster_fields[i]], Quotes)
            IN IF rule_preisraster # "-" /\ rule_preisraster # ""
               THEN rule_preisraster = preisraster
               ELSE TRUE

length_match(rule, container_length) ==
    \E i \in 1..Len(length_fields) :
        /\ length_fields[i] \in DOMAIN rule.conditions
        /\ LET rule_length == StripChars(rule.conditions[length_fields[i]], Quotes)
           IN rule_length = container_length \/ rule_length = "-"

weight_match(rule, gross_weight_tons) ==
    \E i \in 1..Len(weight_fields) :
        /\ weight_fields[i] \in DOMAIN rule.conditions
        /\ evaluate_weight_condition(gross_weight_tons, rule.conditions[weight_fields[i]])

weight_rule_matches(rule, c) ==
    /\ preisraster_match(rule, c.preisraster)
    /\ length_match(rule, c.container_length)
    /\ weight_match(rule, c.gross_weight)

\* the classification a rule carries: its first class column, None without one
weight_rule_class(rule) ==
    LET i == FirstPresent(class_fields, rule.outputs)
    IN IF i = 0 THEN NoneStr ELSE rule.outputs[class_fields[i]]

\* evaluate_weight_class from rule i on: the class of the first rule whose
\* three checks hold and that has a class column; None when there is none
RECURSIVE evaluate_weight_class(_, _, _)
evaluate_weight_class(rules, c, i) ==
    IF i > Len(rules)
    THEN NoneStr
    ELSE IF weight_rule_matches(rules[i], c) /\ FirstPresent(class_fields, rules[i].outputs) # 0
         THEN weight_rule_class(rules[i])
         ELSE evaluate_weight_class(rules, c, i + 1)

\* the sheet of the weight-class workbook: its header row and the data rows
\* a rule author can write
WeightHeaders == <<"Preisraster", "Länge", "Gewicht", "Gewichtsklasse">>

WeightRows ==
    { <<"", "20", "<=20", "20A">>,
      <<"", "20", ">20", "20B">>,
      <<"-", "-", "-", "ANY">>,
      <<"N", "\"20\"", "[10..20]", "20M">>,
      <<"", "20", "<=20", "">>,
      <<"", "", "<=20", "20E">>,
      <<"", "20", "", "20W">>,
      <<"", "", "", "">> }

WeightContexts ==
    [container_length : {"20", "40"},
     gross_weight : {5000, 20000, 20001},
     preisraster : {"N"}]

----------------------------------------------------------------------------
(* XLSXTaxProcessor: the tax table, read from the sheet at every call *)

UpperAlpha == "ABCDEFGHIJKLMNOPQRSTUVWXYZ"
LowerAlpha == "abcdefghijklmnopqrstuvwxyz"

RECURSIVE MapChars(_, _, _)
MapChars(s, from, to) ==
    IF Len(s) = 0
    THEN ""
    ELSE LET i == Find(from, Char(s, 1))
         IN (IF i = 0 THEN Char(s, 1) ELSE Char(to, i))
                \o MapChars(SubSeq(s, 2, Len(s)), from, to)

\* str.lower(), str.upper()
Lower(s) == MapChars(s, UpperAlpha, LowerAlpha)
Upper(s) == MapChars(s, LowerAlpha, UpperAlpha)

\* the sheet row of the first rule: rows 1 and 2 are title and header
FirstTaxRow == 3

\* the text of a placeholder row's first cell (the one-character ellipsis
\* U+2026 in the workbook)
Placeholder == "..."

\* _get_cell_value: a row is the tuple of its cells' texts, "" for an empty cell
get_cell_value(row, col) == Strip(row[col])

\* _normalize_value
normalize_value(value) ==
    IF value = "" \/ Lower(value) \in {"none", "null", ""} THEN "" ELSE Strip(value)

\* x and x.lower() in ['ja', 'yes', 'true']: the empty string when x is
\* empty, else the boolean, written as Python prints it
AndIsYes(x) ==
    IF x = "" THEN "" ELSE IF Lower(x) \in {"ja", "yes", "true"} THEN "True" ELSE "False"

\* evaluate_tax_calculation, lines 113-203: all(matches) for one row
tax_row_matches(row, order_context) ==
    LET service_type == Lower(DictGet(order_context, "service_type", ""))
        loading_status == Lower(DictGet(order_context, "loading_status", ""))
        departure_location == Lower(DictGet(order_context, "departure_location_type", ""))
        destination_location == Lower(DictGet(order_context, "destination_location_type", ""))
        vat_id == Upper(DictGet(order_context, "vat_id", ""))
        vat_country == Upper(DictGet(order_context, "vat_country", ""))
        transport_direction == Lower(DictGet(order_context, "transport_direction", ""))
        customs_procedure == Upper(DictGet(order_context, "customs_procedure", ""))
        rule_service == normalize_value(get_cell_value(row, 1))
        rule_loading == normalize_value(get_cell_value(row, 2))
        rule_departure == normalize_value(get_cell_value(row, 3))
        rule_destination == normalize_value(get_cell_value(row, 4))
        rule_vat_id == normalize_value(get_cell_value(row, 5))
        rule_vat_country == normalize_value(get_cell_value(row, 6))
        rule_direction == normalize_value(get_cell_value(row, 7))
        rule_customs == normalize_value(get_cell_value(row, 8))
        export_rule == rule_direction # "" /\ Contains(Lower(rule_direction), "export")
        customs_list == Split(rule_customs, ",")
    IN /\ IF rule_service # "" /\ Contains(service_type, "transport")
          THEN Contains(Lower(rule_service), "transport")
          ELSE rule_service = ""
       /\ rule_loading # "" => Contains(loading_status, Lower(rule_loading))
       /\ rule_departure # "" => Contains(departure_location, Lower(rule_departure))
       /\ rule_destination # "" =>
             IF export_rule /\ Contains(Lower(rule_destination), "inland")
             THEN TRUE
             ELSE Contains(destination_location, Lower(rule_destination))
       /\ rule_vat_id # "" =>
             IF Contains(Lower(rule_vat_id), "keine")
             THEN Contains(Lower(vat_id), "keine") \/ vat_id = ""
             ELSE IF Contains(Lower(rule_vat_id), "relevant")
                  THEN TRUE
                  ELSE Upper(rule_vat_id) = Upper(vat_id)
       /\ rule_vat_country # "" =>
             IF Contains(Lower(rule_vat_country), "relevant")
             THEN TRUE
             ELSE IF vat_id # "" /\ Contains(Lower(vat_id), "keine") /\ export_rule
                  THEN TRUE
                  ELSE Upper(rule_vat_country) = Upper(vat_country)
       /\ rule_direction # "" => Contains(Lower(transport_direction), Lower(rule_direction))
       /\ rule_customs # "" =>
             IF customs_procedure = "" /\ export_rule
             THEN TRUE
             ELSE \E k \in 1..Len(customs_list) :
                      Contains(Upper(customs_procedure), Upper(Strip(customs_list[k])))

\* lines 206-232: the result built from the action columns of sheet row row_idx
tax_result(row, row_idx) ==
    LET apply_vat == AndIsYes(get_cell_value(row, 10))
        tax_case_str == get_cell_value(row, 11)
    IN [apply_vat |-> apply_vat,
        tax_case |-> IF tax_case_str # "" THEN tax_case_str ELSE "No VAT",
        tax_rate |-> IF apply_vat = "True" THEN 19 ELSE 0,
        display_notice |-> AndIsYes(get_cell_value(row, 12)),
        sap_vat_indicator |-> get_cell_value(row, 13),
        central_notification |-> AndIsYes(get_cell_value(row, 14)),
        rule_matched |-> row_idx]

\* Python None where a tax result is expected
TaxNone ==
    [apply_vat |-> "", tax_case |-> "", tax_rate |-> 0, display_notice |-> "",
     sap_vat_indicator |-> "", central_notification |-> "", rule_matched |-> 0]

\* whether the scan looks at a row at all
tax_row_scanned(row) == get_cell_value(row, 1) # Placeholder

\* evaluate_tax_calculation from rule i on (sheet row i + FirstTaxRow - 1):
\* the result of the first row that is no placeholder and matches
RECURSIVE evaluate_tax_calculation(_, _, _)
evaluate_tax_calculation(rows, order_context, i) ==
    IF i > Len(rows)
    THEN TaxNone
    ELSE IF tax_row_scanned(rows[i]) /\ tax_row_matches(rows[i], order_context)
         THEN tax_result(rows[i], i + FirstTaxRow - 1)
         ELSE evaluate_tax_calculation(rows, order_context, i + 1)

\* the rule rows a rule author can write into the tax sheet
TaxRows ==
    { <<"Transport", "beladen", "Inland", "Inland", "keine", "", "Export", "T1-NCTS, GW", "",
        "nein", "4 Nr. 3a UStG", "nein", "A1", "nein">>,
      <<"Transport", "", "Ausland", "Inland", "DE", "DE", "Import", "", "",
        "nein", "Reverse Charge", "ja", "RC", "ja">>,
      <<"Transport", "", "Inland", "Inland", "", "nicht relevant", "Domestic", "", "",
        "ja", "Standard VAT", "nein", "B1", "nein">>,
      <<"", "", "", "", "", "", "", "", "",
        "Ja", "", "", "", "">>,
      <<"...", "", "", "", "", "", "", "", "",
        "ja", "placeholder", "", "", "">> }

TaxContexts ==
    [service_type : {"Transport"},
     loading_status : {"beladen"},
     departure_location_type : {"Inland", "Ausland"},
     destination_location_type : {"Inland"},
     vat_id : {"keine", "DE"},
     vat_country : {"DE"},
     transport_direction : {"Export", "Import", "Domestic"},
     customs_procedure : {"", "T1-NCTS"}]

----------------------------------------------------------------------------
(* XLSXDMNProcessor: trip type *)

trucking_code_fields == <<"Trucking Code", "TruckingCode", "Trucking_Code">>
trip_type_fields == <<"TypeOfTrip", "Trip Type", "Type Of Trip", "Fahrttyp">>

\* the rule has the trucking code under one of its column names
trip_rule_matches(rule, trucking_code) ==
    \E i \in 1..Len(trucking_code_fields) :
        /\ trucking_code_fields[i] \in DOMAIN rule.conditions
        /\ rule.conditions[trucking_code_fields[i]] = trucking_code

\* the trip type a rule carries: its first trip type column, None without one
trip_rule_type(rule) ==
    LET i == FirstPresent(trip_type_fields, rule.outputs)
    IN IF i = 0 THEN NoneStr ELSE rule.outputs[trip_type_fields[i]]

\* the value returned when the scan of the rules ends without a return
default_trip_type == "Zustellung"

\* evaluate_trip_type from rule i on: the trip type of the first rule with the
\* trucking code and a trip type column, the default when there is none
RECURSIVE evaluate_trip_type(_, _, _)
evaluate_trip_type(rules, trucking_code, i) ==
    IF i > Len(rules)
    THEN default_trip_type
    ELSE IF trip_rule_matches(rules[i], trucking_code)
            /\ FirstPresent(trip_type_fields, rules[i].outputs) # 0
         THEN trip_rule_type(rules[i])
         ELSE evaluate_trip_type(rules, trucking_code, i + 1)

\* the sheet of the trip type workbook
TripHeaders == <<"Trucking Code", "TypeOfTrip">>

TripRows ==
    { <<"LB", "Zustellung">>,
      <<"AB", "Abholung">>,
      <<"LC", "Leercontainer">>,
      <<"AB", "">>,
      <<"", "">> }

TripContexts == [trucking_code : {"LB", "AB", "XX"}]

----------------------------------------------------------------------------
(* The Unique evaluators applied to a table and a context *)

EvaluateWeightClass ==
    /\ kind = "weight"
    /\ ~result.done
    /\ result' = [done |-> TRUE, value |-> evaluate_weight_class(table, ctx, 1)]
    /\ UNCHANGED <<kind, table, ctx, notEval>>

EvaluateTaxCalculation ==
    /\ kind = "tax"
    /\ ~result.done
    /\ result' = [done |-> TRUE, value |-> evaluate_tax_calculation(table, ctx, 1)]
    /\ UNCHANGED <<kind, table, ctx, notEval>>

EvaluateTripType ==
    /\ kind = "trip"
    /\ ~result.done
    /\ result' = [done |-> TRUE, value |-> evaluate_trip_type(table, ctx.trucking_code, 1)]
    /\ UNCHANGED <<kind, table, ctx, notEval>>

\* the caches play no part in an evaluation of a loaded table
CachesIdle ==
    /\ NothingLoaded
    /\ pyDMNrules = TRUE
    /\ InitThreads
    /\ NoRedis

InitUnique ==
    /\ CachesIdle
    /\ result = NoResult
    /\ \/ /\ kind = "weight"
          /\ \E rows \in SeqsUpTo(WeightRows, MaxRules) :
                table = extract_rules(WeightHeaders, parse_rows(rows))
          /\ ctx \in WeightContexts
       \/ /\ kind = "tax"
          /\ table \in SeqsUpTo(TaxRows, MaxRules)
          /\ ctx \in TaxContexts
       \/ /\ kind = "trip"
          /\ \E rows \in SeqsUpTo(TripRows, MaxRules) :
                table = extract_rules(TripHeaders, parse_rows(rows))
          /\ ctx \in TripContexts

NextUnique ==
    \/ EvaluateWeightClass
    \/ EvaluateTaxCalculation
    \/ EvaluateTripType

SpecUnique == InitUnique /\ [][NextUnique]_vars

----------------------------------------------------------------------------
(* XLSXDMNProcessor._evaluate_weight_condition applied to one cell *)

\* how a rule author writes a condition cell: a comparison (operator and
\* threshold), a range (two bracket characters and two bounds), the wildcard
\* token or nothing, or a bare number
ComparisonCells ==
    [form : {"comparison"}, left : {"<", "<=", ">", ">=", "="},
     lower : {"10", "20", "20.5"}, upper : {""}, right : {""}]

RangeCells ==
    [form : {"range"}, left : {"[", "(", "]"},
     lower : {"10", "1O"}, upper : {"20", "2O", ""}, right : {"]", ")", "["}]

OtherCells ==
    [form : {"wildcard"}, left : {"-", ""}, lower : {""}, upper : {""}, right : {""}]
    \cup [form : {"number"}, left : {""}, lower : {"20", "abc"}, upper : {""}, right : {""}]

ConditionCells == ComparisonCells \cup RangeCells \cup OtherCells

\* the text of the cell
CellText(d) ==
    d.left \o d.lower \o (IF d.form = "range" THEN ".." ELSE "") \o d.upper \o d.right

\* gross weights in kg around the thresholds
ConditionWeights == {9999, 10000, 10001, 19999, 20000, 20001, 20500}

EvaluateWeightCondition ==
    /\ kind = "condition"
    /\ ~result.done
    /\ result' = [done |-> TRUE,
                  value |-> evaluate_weight_condition(ctx.actual_weight, table[1])]
    /\ UNCHANGED <<kind, table, ctx, notEval>>

InitCondition ==
    /\ CachesIdle
    /\ kind = "condition"
    /\ result = [done |-> FALSE, value |-> FALSE]
    /\ \E d \in ConditionCells, n \in ConditionWeights :
          /\ table = <<CellText(d)>>
          /\ ctx = [actual_weight |-> n, cell |-> d]

NextCondition == EvaluateWeightCondition

SpecCondition == InitCondition /\ [][NextCondition]_vars

----------------------------------------------------------------------------
(* XLSXDMNProcessor: service determination (Collect) *)

\* int(s) of a text: ok is FALSE where Python raises ValueError
ParseInt(s) ==
    LET t == Strip(s)
        neg == StartsWith(t, "-")
        body == IF StartsWith(t, "-") \/ StartsWith(t, "+")
                THEN SubSeq(t, 2, Len(t)) ELSE t
        ok == IsDigits(body) /\ Len(body) > 0
    IN [ok |-> ok,
        val |-> IF ~ok THEN 0 ELSE IF neg THEN 0 - DigitsVal(body) ELSE DigitsVal(body)]

\* x in list
InList(x, list) == \E k \in 1..Len(list) : list[k] = x

verkehrsform_fields == <<"Verkehrsform", "Transport Type", "TransportType">>
gefahrgut_fields == <<"Gefahrgut", "Dangerous Goods", "DangerousGoods">>
service_fields == <<"AdditionalServiceCode", "Service Code", "ServiceCode">>

\* evaluate_service_determination, lines 410-429: the two checks on one rule
legacy_rule_matches(rule, c) ==
    LET v == FirstPresent(verkehrsform_fields, rule.conditions)
        g == FirstPresent(gefahrgut_fields, rule.conditions)
        rule_verkehrsform == rule.conditions[verkehrsform_fields[v]]
        rule_gefahrgut == rule.conditions[gefahrgut_fields[g]]
    IN /\ (v # 0 /\ rule_verkehrsform # "-" /\ rule_verkehrsform # "") =>
              rule_verkehrsform = c.verkehrsform
       /\ (g # 0 /\ rule_gefahrgut # "-" /\ rule_gefahrgut # "") =>
              ((Lower(rule_gefahrgut) \in {"true", "1", "yes"}) <=> c.gefahrgut)

\* lines 432-441: the service codes of a matching rule are appended, each
\* only if it is not in the list yet; a code int() rejects is passed over
RECURSIVE legacy_append(_, _, _)
legacy_append(applicable_services, rule, k) ==
    IF k > Len(service_fields)
    THEN applicable_services
    ELSE LET sf == service_fields[k]
             service_int == ParseInt(rule.outputs[sf])
         IN IF /\ sf \in DOMAIN rule.outputs
               /\ service_int.ok
               /\ ~InList(service_int.val, applicable_services)
            THEN legacy_append(Append(applicable_services, service_int.val), rule, k + 1)
            ELSE legacy_append(applicable_services, rule, k + 1)

\* evaluate_service_determination from rule i on
RECURSIVE evaluate_service_determination(_, _, _, _)
evaluate_service_determination(rules, c, i, applicable_services) ==
    IF i > Len(rules)
    THEN applicable_services
    ELSE evaluate_service_determination(rules, c, i + 1,
             IF legacy_rule_matches(rules[i], c)
             THEN legacy_append(applicable_services, rules[i], 1)
             ELSE applicable_services)

\* the sheet row of the first rule of 4_Regeln_Leistungsermittlung.xlsx
FirstServiceRow == 2

\* row_values[k-1] if len(row_values) > k-1 else None; None is ""
Cell(row, k) == IF k <= Len(row) THEN row[k] ELSE ""

\* rule_x and str(rule_x).strip().strip('"')
NonBlank(cell) == cell # "" /\ StripChars(Strip(cell), {"\""}) # ""

\* evaluate_service_determination_full, lines 539-609: matches for one row
service_row_matches(row, order_context) ==
    LET equals(col, key) ==
            NonBlank(Cell(row, col)) =>
                StripChars(Cell(row, col), {"\""}) = DictGet(order_context, key, "")
        rule_transport_clean == StripChars(Cell(row, 3), {"\""})
        order_transport == DictGet(order_context, "transport_type", "")
        rule_valid_from == Cell(row, 10)
        rule_valid_to == Cell(row, 11)
        order_date == DictGet(order_context, "service_date", "")
        order_date_int == ParseInt(order_date)
        valid_from_int == ParseInt(rule_valid_from)
        valid_to_int == ParseInt(rule_valid_to)
    IN /\ equals(1, "service_type")
       /\ equals(2, "loading_status")
       /\ NonBlank(Cell(row, 3)) =>
             ~(/\ rule_transport_clean # order_transport
               /\ rule_transport_clean # "KV"
               /\ order_transport # rule_transport_clean)
       /\ (Cell(row, 4) # "" /\ Lower(Cell(row, 4)) = "true") =>
             DictGet(order_context, "dangerous_goods", FALSE)
       /\ equals(5, "customs_procedure")
       /\ equals(6, "departure_country")
       /\ equals(7, "departure_station")
       /\ equals(8, "destination_country")
       /\ equals(9, "destination_station")
       /\ (/\ rule_valid_from # "" /\ rule_valid_to # "" /\ order_date # ""
           /\ order_date_int.ok /\ valid_from_int.ok /\ valid_to_int.ok) =>
             (valid_from_int.val <= order_date_int.val /\ order_date_int.val <= valid_to_int.val)

\* line 521: a row is skipped when all its cells are empty
service_row_scanned(row) == \E k \in 1..Len(row) : row[k] # ""

\* lines 612-618: the service a matching row with an NGB code adds
service_dict(row, row_idx) ==
    [code |-> ParseInt(Cell(row, 12)).val,
     name |-> IF Cell(row, 13) # "" THEN Cell(row, 13) ELSE "Service " \o Cell(row, 12),
     rule_matched |-> row_idx]

RECURSIVE collect_services(_, _, _)
collect_services(rows, order_context, i) ==
    IF i > Len(rows)
    THEN <<>>
    ELSE (IF /\ service_row_scanned(rows[i])
             /\ service_row_matches(rows[i], order_context)
             /\ Cell(rows[i], 12) # ""
          THEN <<service_dict(rows[i], i + FirstServiceRow - 1)>>
          ELSE <<>>) \o collect_services(rows, order_context, i + 1)

\* evaluate_service_determination_full: the services of the matching rows
\* that have an NGB code, in row order; int() raising on one of them lands in
\* the except clause, which returns the empty list
evaluate_service_determination_full(rows, order_context) ==
    IF \E i \in 1..Len(rows) :
          /\ service_row_scanned(rows[i])
          /\ service_row_matches(rows[i], order_context)
          /\ Cell(rows[i], 12) # ""
          /\ ~ParseInt(Cell(rows[i], 12)).ok
    THEN <<>>
    ELSE collect_services(rows, order_context, 1)

\* the sheet of the legacy service determination workbook
LegacyHeaders == <<"Verkehrsform", "Gefahrgut", "AdditionalServiceCode">>

LegacyRows ==
    { <<"KV", "-", "111">>,
      <<"-", "true", "456">>,
      <<"", "", "111">>,
      <<"KVS", "false", "333">>,
      <<"KV", "", "">> }

LegacyContexts == [verkehrsform : {"KV", "KVS"}, gefahrgut : BOOLEAN]

\* the rule rows a rule author can write into 4_Regeln_Leistungsermittlung.xlsx
ServiceRows ==
    { <<"Hauptleistung Transport", "beladen", "KV", "", "", "", "", "", "", "", "",
        "111", "Zuschlag 1">>,
      <<"", "", "", "", "", "DE", "", "", "", "", "",
        "111", "Zuschlag 1">>,
      <<"", "", "", "true", "", "", "", "", "", "", "",
        "456", "">>,
      <<"", "", "KVS", "", "", "", "", "", "", "20250101", "20251231",
        "222", "Zuschlag 2">>,
      <<"\"Hauptleistung Transport\"", "", "", "", "", "", "", "", "", "", "",
        "", "">>,
      <<"", "", "", "", "", "", "", "", "", "", "", "", "">> }

ServiceContexts ==
    [service_type : {"Hauptleistung Transport"},
     loading_status : {"beladen"},
     transport_type : {"KV", "KVS"},
     dangerous_goods : BOOLEAN,
     customs_procedure : {""},
     departure_country : {"DE"},
     departure_station : {"80155283"},
     destination_country : {"DE"},
     destination_station : {"80137943"},
     service_date : {"", "20250713", "20260101"}]

EvaluateServiceDetermination ==
    /\ kind = "service_legacy"
    /\ ~result.done
    /\ result' = [done |-> TRUE, value |-> evaluate_service_determination(table, ctx, 1, <<>>)]
    /\ UNCHANGED <<kind, table, ctx, notEval>>

EvaluateServiceDeterminationFull ==
    /\ kind = "service_full"
    /\ ~result.done
    /\ result' = [done |-> TRUE, value |-> evaluate_service_determination_full(table, ctx)]
    /\ UNCHANGED <<kind, table, ctx, notEval>>

InitCollect ==
    /\ CachesIdle
    /\ result = NoResult
    /\ \/ /\ kind = "service_legacy"
          /\ \E rows \in SeqsUpTo(LegacyRows, MaxRules) :
                table = extract_rules(LegacyHeaders, parse_rows(rows))
          /\ ctx \in LegacyContexts
       \/ /\ kind = "service_full"
          /\ table \in SeqsUpTo(ServiceRows, MaxRules)
          /\ ctx \in ServiceContexts

NextCollect ==
    \/ EvaluateServiceDetermination
    \/ EvaluateServiceDeterminationFull

SpecCollect == InitCollect /\ [][NextCollect]_vars

----------------------------------------------------------------------------
(* XLSXPriceLoader: price lookup with specificity ranking *)

\* row[k] of the source: the k-th cell of a sheet row, counted from 0
Col(row, k) == row[k + 1]

\* any(row)
AnyCell(row) == \E k \in 1..Len(row) : row[k] # ""

\* str.replace(old, '') for a one-character old
RECURSIVE RemoveChar(_, _)
RemoveChar(s, old) ==
    IF Len(s) = 0
    THEN ""
    ELSE (IF Char(s, 1) = old THEN "" ELSE Char(s, 1)) \o RemoveChar(SubSeq(s, 2, Len(s)), old)

\* a list.sort that puts a later row before an earlier one of equal score
RECURSIVE sort_by_specificity_unstable(_)
sort_by_specificity_unstable(matches) ==
    IF Len(matches) <= 1
    THEN matches
    ELSE LET rest == sort_by_specificity_unstable(SubSeq(matches, 1, Len(matches) - 1))
             m == matches[Len(matches)]
             before == {k \in 1..Len(rest) : rest[k].specificity > m.specificity}
             n == Cardinality(before)
         IN SubSeq(rest, 1, n) \o <<m>> \o SubSeq(rest, n + 1, Len(rest))

\* matches.sort(key=lambda x: x['specificity'], reverse=True): descending by
\* score; list.sort is stable, so entries of equal score keep their order
RECURSIVE sort_by_specificity(_)
sort_by_specificity(matches) ==
    IF Len(matches) <= 1
    THEN matches
    ELSE LET rest == sort_by_specificity(SubSeq(matches, 1, Len(matches) - 1))
             m == matches[Len(matches)]
             before == {k \in 1..Len(rest) : rest[k].specificity >= m.specificity}
             n == Cardinality(before)
         IN SubSeq(rest, 1, n) \o <<m>> \o SubSeq(rest, n + 1, Len(rest))

\* the date range validation of both lookups: int() raising ValueError
\* skips the check
date_in_window(service_date, from_cell, to_cell) ==
    LET service_date_int == ParseInt(RemoveChar(service_date, "-"))
        valid_from == IF from_cell # "" THEN ParseInt(from_cell) ELSE [ok |-> TRUE, val |-> 0]
        valid_to == IF to_cell # "" THEN ParseInt(to_cell) ELSE [ok |-> TRUE, val |-> 99991231]
    IN (service_date_int.ok /\ valid_from.ok /\ valid_to.ok) =>
           (valid_from.val <= service_date_int.val /\ service_date_int.val <= valid_to.val)

\* a score in which the customer number weighs no more than the customer group
main_specificity_flat(row, c) ==
    (IF Col(row, 2) # "" /\ Col(row, 2) = c.customer_code THEN 100
     ELSE IF Col(row, 1) # "" /\ Col(row, 1) = c.customer_group THEN 100
     ELSE IF Col(row, 0) # "" /\ Col(row, 0) = c.offer_number THEN 50
     ELSE 0)
    + (IF Col(row, 4) # "" /\ Col(row, 4) = c.departure_station THEN 10 ELSE 0)
    + (IF Col(row, 7) # "" /\ Col(row, 7) = c.destination_station THEN 10 ELSE 0)
    + (IF Col(row, 5) # "" /\ Col(row, 5) = c.tariff_point_dep THEN 5 ELSE 0)
    + (IF Col(row, 8) # "" /\ Col(row, 8) = c.tariff_point_dest THEN 5 ELSE 0)
    + (IF Col(row, 10) # "" /\ Col(row, 10) = c.loading_status THEN 2 ELSE 0)
    + (IF Col(row, 11) # "" /\ Col(row, 11) = c.transport_form THEN 2 ELSE 0)

\* get_main_service_price_advanced, lines 204-241: the score of a row
main_specificity(row, c) ==
    (IF Col(row, 2) # "" /\ Col(row, 2) = c.customer_code THEN 1000
     ELSE IF Col(row, 1) # "" /\ Col(row, 1) = c.customer_group THEN 100
     ELSE IF Col(row, 0) # "" /\ Col(row, 0) = c.offer_number THEN 50
     ELSE 0)
    + (IF Col(row, 4) # "" /\ Col(row, 4) = c.departure_station THEN 10 ELSE 0)
    + (IF Col(row, 7) # "" /\ Col(row, 7) = c.destination_station THEN 10 ELSE 0)
    + (IF Col(row, 5) # "" /\ Col(row, 5) = c.tariff_point_dep THEN 5 ELSE 0)
    + (IF Col(row, 8) # "" /\ Col(row, 8) = c.tariff_point_dest THEN 5 ELSE 0)
    + (IF Col(row, 10) # "" /\ Col(row, 10) = c.loading_status THEN 2 ELSE 0)
    + (IF Col(row, 11) # "" /\ Col(row, 11) = c.transport_form THEN 2 ELSE 0)

\* lines 229-235: the required columns
main_required(row, c) ==
    /\ ~(Col(row, 9) # "" /\ Col(row, 9) # c.direction)
    /\ ~(Col(row, 14) # "" /\ Col(row, 14) # c.weight_class)
    /\ ~(Col(row, 13) # "" /\ Col(row, 13) # c.container_length)

\* lines 201-255: whether a row is appended to matches
main_candidate(row, c) ==
    /\ AnyCell(row)
    /\ main_required(row, c)
    /\ date_in_window(c.service_date, Col(row, 15), Col(row, 16))
    /\ main_specificity(row, c) > 0
    /\ Col(row, 17) # ""

\* lines 256-264: the entry appended for a row; the price in thousandths
main_match(row, c) ==
    [specificity |-> main_specificity(row, c),
     price |-> ParseFloat(Col(row, 17)).val,
     price_unit |-> IF Col(row, 18) # "" THEN Col(row, 18) ELSE "Container",
     offer_number |-> Col(row, 0),
     customer_number |-> Col(row, 2),
     customer_group |-> Col(row, 1),
     matched_criteria |-> main_specificity(row, c)]

\* Python None where a main price match is expected
MainNone ==
    [specificity |-> -1, price |-> 0, price_unit |-> "", offer_number |-> "",
     customer_number |-> "", customer_group |-> "", matched_criteria |-> -1]

RECURSIVE main_matches(_, _, _)
main_matches(rows, c, i) ==
    IF i > Len(rows)
    THEN <<>>
    ELSE (IF main_candidate(rows[i], c) THEN <<main_match(rows[i], c)>> ELSE <<>>)
             \o main_matches(rows, c, i + 1)

\* get_main_service_price_advanced: the first entry of the sorted matches.
\* service_date None makes service_date.replace raise at the first row that
\* passes the required columns, and float() may raise on a price; both land
\* in the outer except clause, which returns None
get_main_service_price_advanced(rows, c) ==
    IF \/ /\ c.service_date = NoneStr
          /\ \E i \in 1..Len(rows) : AnyCell(rows[i]) /\ main_required(rows[i], c)
       \/ \E i \in 1..Len(rows) :
             main_candidate(rows[i], c) /\ ~ParseFloat(Col(rows[i], 17)).ok
    THEN MainNone
    ELSE LET matches == sort_by_specificity(main_matches(rows, c, 1))
         IN IF Len(matches) > 0 THEN matches[1] ELSE MainNone

\* get_additional_service_price_advanced, lines 380-402: the score of a row
additional_specificity(row, c) ==
    (IF c.customer_code # "" /\ Col(row, 2) # "" /\ Col(row, 2) = c.customer_code THEN 1000
     ELSE IF c.customer_group # "" /\ Col(row, 3) # "" /\ Col(row, 3) = c.customer_group
          THEN 100
     ELSE 0)
    + (IF c.departure_station # "" /\ Col(row, 6) # "" /\ Col(row, 6) = c.departure_station
       THEN 10 ELSE 0)
    + (IF c.destination_station # "" /\ Col(row, 8) # "" /\ Col(row, 8) = c.destination_station
       THEN 10 ELSE 0)
    + (IF c.loading_status # "" /\ Col(row, 9) # "" /\ Col(row, 9) = c.loading_status
       THEN 2 ELSE 0)
    + (IF c.transport_form # "" /\ Col(row, 10) # "" /\ Col(row, 10) = c.transport_form
       THEN 2 ELSE 0)
    + (IF c.container_length # "" /\ Col(row, 15) # "" /\ Col(row, 15) = c.container_length
       THEN 2 ELSE 0)

\* lines 373-417: whether a row is appended to matches
additional_candidate(row, c) ==
    /\ AnyCell(row)
    /\ Col(row, 0) # "" /\ Col(row, 0) = c.service_code
    /\ (c.service_date \notin {"", NoneStr} /\ Col(row, 16) # "" /\ Col(row, 17) # "") =>
           date_in_window(c.service_date, Col(row, 16), Col(row, 17))
    /\ Col(row, 19) # ""

\* the entry of a row whose price is multiplied whatever the basis
additional_match_always_per_unit(row, c) ==
    LET price_per_unit == ParseFloat(Col(row, 19)).val
        price_basis == IF Col(row, 18) # "" THEN Col(row, 18) ELSE "Container"
    IN [specificity |-> additional_specificity(row, c),
        price_per_unit |-> price_per_unit,
        quantity |-> c.quantity,
        total_price |-> price_per_unit * c.quantity,
        price_basis |-> price_basis,
        service_name |-> IF Col(row, 1) # "" THEN Col(row, 1)
                         ELSE "Service " \o c.service_code]

\* lines 418-434: the entry appended for a row; prices in thousandths
additional_match(row, c) ==
    LET price_per_unit == ParseFloat(Col(row, 19)).val
        price_basis == IF Col(row, 18) # "" THEN Col(row, 18) ELSE "Container"
        per_unit == Lower(price_basis) \in {"einheit", "unit", "per_unit"}
    IN [specificity |-> additional_specificity(row, c),
        price_per_unit |-> price_per_unit,
        quantity |-> IF per_unit THEN c.quantity ELSE 1,
        total_price |-> IF per_unit THEN price_per_unit * c.quantity ELSE price_per_unit,
        price_basis |-> price_basis,
        service_name |-> IF Col(row, 1) # "" THEN Col(row, 1)
                         ELSE "Service " \o c.service_code]

\* Python None where an additional price match is expected
AdditionalNone ==
    [specificity |-> -1, price_per_unit |-> 0, quantity |-> 0, total_price |-> 0,
     price_basis |-> "", service_name |-> ""]

RECURSIVE additional_matches(_, _, _)
additional_matches(rows, c, i) ==
    IF i > Len(rows)
    THEN <<>>
    ELSE (IF additional_candidate(rows[i], c) THEN <<additional_match(rows[i], c)>> ELSE <<>>)
             \o additional_matches(rows, c, i + 1)

\* get_additional_service_price_advanced
get_additional_service_price_advanced(rows, c) ==
    IF \E i \in 1..Len(rows) :
          additional_candidate(rows[i], c) /\ ~ParseFloat(Col(rows[i], 19)).ok
    THEN AdditionalNone
    ELSE LET matches == sort_by_specificity(additional_matches(rows, c, 1))
         IN IF Len(matches) > 0 THEN matches[1] ELSE AdditionalNone

\* a row of 6_Preistabelle_Hauptleistungen_Einzelpreise.xlsx (19 columns,
\* lines 186-192) for a 20 ft container of weight class 20A
MainRow(offer, group, customer, dep_station, direction, loading, from, to, price) ==
    <<offer, group, customer, "", dep_station, "", "", "", "", direction, loading, "",
      "", "20", "20A", from, to, price, "">>

\* the price rows a price author can write
MainRows ==
    { MainRow("", "", "123456", "", "Export", "", "", "", "100"),
      MainRow("", "G1", "", "", "Export", "", "", "", "150"),
      MainRow("", "G1", "", "", "Export", "", "", "", "160"),
      MainRow("O1", "", "", "", "Export", "", "", "", "200"),
      MainRow("", "", "", "", "Export", "", "", "", "300"),
      MainRow("", "G1", "123456", "80155283", "", "", "", "", "110"),
      MainRow("", "G1", "", "80155283", "Export", "beladen", "", "", "180"),
      MainRow("", "", "", "", "", "beladen", "", "", "400"),
      MainRow("", "G1", "", "", "Export", "", "20240101", "20241231", "170"),
      MainRow("", "G1", "", "", "Export", "", "20260101", "", "190"),
      MainRow("", "", "123456", "", "Import", "", "", "", "50") }

MainContexts ==
    [customer_code : {"123456"},
     customer_group : {"G1"},
     offer_number : {"O1"},
     departure_station : {"80155283"},
     destination_station : {"80137943"},
     tariff_point_dep : {"TP1"},
     tariff_point_dest : {"TP2"},
     direction : {"Export"},
     loading_status : {"beladen"},
     transport_form : {"KV"},
     container_length : {"20"},
     weight_class : {"20A"},
     service_date : {"2025-07-13", "", NoneStr}]

\* a row of 6_Preistabelle_Nebenleistungen.xlsx (20 columns, lines 359-364)
AdditionalRow(code, name, customer, group, loading, from, to, basis, price) ==
    <<code, name, customer, group, "", "", "", "", "", loading, "", "", "", "", "",
      "", from, to, basis, price>>

AdditionalRows ==
    { AdditionalRow("123", "Zustellung", "123456", "", "", "", "", "Einheit", "50"),
      AdditionalRow("123", "", "", "G1", "", "", "", "", "55"),
      AdditionalRow("123", "Zustellung", "", "", "", "", "", "Container", "60"),
      AdditionalRow("123", "Zustellung", "", "", "", "", "", "", "70"),
      AdditionalRow("123", "", "", "", "beladen", "20240101", "20241231", "Einheit", "45"),
      AdditionalRow("123", "", "", "", "beladen", "20260101", "", "", "90"),
      AdditionalRow("456", "Gefahrgut", "", "", "", "", "", "", "80"),
      AdditionalRow("123", "", "", "", "", "", "", "", "") }

\* an argument left at its default None is falsy like the empty string
AdditionalContexts ==
    [service_code : {"123"},
     customer_code : {"123456", ""},
     customer_group : {"G1"},
     departure_station : {""},
     destination_station : {""},
     loading_status : {"beladen"},
     transport_form : {""},
     container_length : {"20"},
     service_date : {"2025-07-13", "", NoneStr},
     quantity : {1, 5}]

GetMainServicePriceAdvanced ==
    /\ kind = "price_main"
    /\ ~result.done
    /\ result' = [done |-> TRUE, value |-> get_main_service_price_advanced(table, ctx)]
    /\ UNCHANGED <<kind, table, ctx, notEval>>

GetAdditionalServicePriceAdvanced ==
    /\ kind = "price_additional"
    /\ ~result.done
    /\ result' = [done |-> TRUE, value |-> get_additional_service_price_advanced(table, ctx)]
    /\ UNCHANGED <<kind, table, ctx, notEval>>

InitRank ==
    /\ CachesIdle
    /\ result = NoResult
    /\ \/ /\ kind = "price_main"
          /\ table \in SeqsUpTo(MainRows, MaxRules)
          /\ ctx \in MainContexts
       \/ /\ kind = "price_additional"
          /\ table \in SeqsUpTo(AdditionalRows, MaxRules)
          /\ ctx \in AdditionalContexts

NextRank ==
    \/ GetMainServicePriceAdvanced
    \/ GetAdditionalServicePriceAdvanced

SpecRank == InitRank /\ [][NextRank]_vars

----------------------------------------------------------------------------
(* BillingDMNEngine.execute_rule and the Redis result cache *)

\* the default time-to-live of a cached result, in seconds
cache_ttl == 300
\* the time a behaviour runs for
MaxTime == 301

\* the data rows of the weight-class sheet in its g-th version: each version
\* moves the weight limit between the two classes (20 t, 18 t, ...)
GridRows(g) ==
    << <<"", "20", "<=" \o ToString(22 - 2 * g), "20A">>,
       <<"", "20", ">" \o ToString(22 - 2 * g), "20B">> >>

\* rule_data['rules'] of a loaded table
rules_of(t) == extract_rules(WeightHeaders, parse_rows(GridRows(t.grid)))

\* Python None where the result of execute_rule is expected
ExecNone == [weightClass |-> NoneStr, WeightClass |-> NoneStr]

\* the input_data execute_rule is called with for the weight-class rule
Inputs == [Length : {"20"}, GrossWeight : {19000}]

\* lines 294-295: the result dict of a weight class, None when there is none
weight_class_dict(weight_class) ==
    IF weight_class = NoneStr
    THEN ExecNone
    ELSE [weightClass |-> weight_class, WeightClass |-> weight_class]

\* lines 283-295: the arguments taken from input_data and the result dict
weight_class_result(t, input_data) ==
    LET container_length == DictGet(input_data, "Length", "")
        gross_weight == DictGet(input_data, "GrossWeight", -1)
        preisraster == DictGet(input_data, "Preisraster", "N")
    IN weight_class_dict(
           IF t = None \/ container_length = "" \/ gross_weight = -1
           THEN NoneStr
           ELSE evaluate_weight_class(rules_of(t),
                    [container_length |-> container_length,
                     gross_weight |-> gross_weight,
                     preisraster |-> preisraster], 1))

\* _execute_with_pydmnrules: get_engine, then the decision of the table the
\* engine holds; no engine or no decision gives None
execute_with_pydmnrules(f, input_data) ==
    LET g == get_engine(engines, last_modified, loads, f, FALSE)
    IN [engines |-> g.engines, lm |-> g.lm, n |-> g.n,
        ret |-> weight_class_result(g.ret, input_data)]

\* _execute_with_xlsx_processor for the weight-class rule: evaluate_weight_class
\* loads the rule file through load_rule_file and scans its rules
execute_with_xlsx_processor(n, f, input_data, statOk) ==
    LET l == load_rule_file(rule_cache, file_mtimes, n, f, FALSE, statOk)
    IN [cache |-> l.cache, mtimes |-> l.mtimes, n |-> l.n,
        ret |-> weight_class_result(l.ret, input_data)]

\* json.dumps(result) and json.loads(cached) for a result dict of two strings
json_dumps(r) ==
    "{\"weightClass\": \"" \o r.weightClass \o "\", \"WeightClass\": \"" \o r.WeightClass \o "\"}"

json_loads(text) ==
    LET parts == Split(text, "\"")
    IN [weightClass |-> parts[4], WeightClass |-> parts[8]]

\* _get_cache_key: the rule name and a hash of the input; the hash is taken
\* to tell the inputs apart
get_cache_key(rule_name, input_data) == <<rule_name, input_data>>

\* _get_cached_result: None without a client, when the call raises, and when
\* Redis holds no live entry under the key
get_cached_result(cache_key) ==
    IF /\ redis_client = "up"
       /\ cache_key \in DOMAIN redis
       /\ now < redis[cache_key].expires
    THEN json_loads(redis[cache_key].value)
    ELSE ExecNone

\* _cache_result: setex(cache_key, cache_ttl, serialized), nothing without a
\* client or when the call raises
cache_result(cache_key, r) ==
    IF redis_client = "up"
    THEN DictSet(redis, cache_key, [value |-> json_dumps(r), expires |-> now + cache_ttl])
    ELSE redis

\* lines 216-225: the fallback to the XLSX processor, whose outcome is xl,
\* after pyDMNrules gave nothing and left the engine cache as in py
xlsx_fallback(py, xl, cache_key, use_cache) ==
    [engines |-> py.engines, lm |-> py.lm, cache |-> xl.cache,
     mtimes |-> xl.mtimes, n |-> xl.n,
     redis |-> IF use_cache /\ xl.ret # ExecNone
               THEN cache_result(cache_key, xl.ret) ELSE redis,
     ret |-> xl.ret]

\* execute_rule with the order of the engines lost: the XLSX processor is
\* asked whatever pyDMNrules returned
xlsx_processor_always(py, f, input_data, use_cache, statOk, cache_key) ==
    xlsx_fallback(py, execute_with_xlsx_processor(py.n, f, input_data, statOk),
                  cache_key, use_cache)

\* lines 208-214: pyDMNrules first, whose outcome is py; its result is cached
\* and returned, and without one the XLSX processor is tried
pydmnrules_first(py, f, input_data, use_cache, statOk, cache_key) ==
    IF py.ret # ExecNone
    THEN [engines |-> py.engines, lm |-> py.lm, cache |-> rule_cache,
          mtimes |-> file_mtimes, n |-> py.n,
          redis |-> IF use_cache THEN cache_result(cache_key, py.ret) ELSE redis,
          ret |-> py.ret]
    ELSE xlsx_fallback(py, execute_with_xlsx_processor(py.n, f, input_data, statOk),
                       cache_key, use_cache)

\* lines 198-205: the cached result when use_cache finds one, and None
cached_or_none(cache_key, use_cache) ==
    IF use_cache THEN get_cached_result(cache_key) ELSE ExecNone

\* lines 205-206: a cache hit returns the cached result and touches nothing
cache_hit(cached_result) ==
    [engines |-> engines, lm |-> last_modified, cache |-> rule_cache,
     mtimes |-> file_mtimes, n |-> loads, redis |-> redis, ret |-> cached_result]

\* lines 198-225 once the cache has been asked and has answered cached_result
after_cache(cached_result, f, input_data, use_cache, statOk, cache_key) ==
    IF cached_result # ExecNone
    THEN cache_hit(cached_result)
    ELSE pydmnrules_first(
             IF pyDMNrules
             THEN execute_with_pydmnrules(f, input_data)
             ELSE [engines |-> engines, lm |-> last_modified, n |-> loads, ret |-> ExecNone],
             f, input_data, use_cache, statOk, cache_key)

\* execute_rule(rule_name, input_data, use_cache): what it returns and what it
\* leaves in the engine cache, the rule cache and Redis
execute_rule(f, input_data, use_cache, statOk) ==
    after_cache(cached_or_none(get_cache_key(f, input_data), use_cache),
                f, input_data, use_cache, statOk, get_cache_key(f, input_data))

\* the state a call of execute_rule leaves when its outcome is r
ExecuteRuleLeaves(f, use_cache, input_data, r) ==
    /\ r.n <= MaxLoads
    /\ engines' = r.engines
    /\ last_modified' = r.lm
    /\ rule_cache' = r.cache
    /\ file_mtimes' = r.mtimes
    /\ loads' = r.n
    /\ redis' = r.redis
    /\ last' = Op("execute_rule", f, FALSE, None, {}, -1, r.n - loads, 0)
    /\ ctx' = [input_data |-> input_data, use_cache |-> use_cache]
    /\ result' = [done |-> TRUE, value |-> r.ret]
    /\ UNCHANGED <<fs, pyDMNrules, kind, table, redis_client, now, threadVars>>

\* one call of execute_rule; stat() on an existing rule file succeeds
ExecuteRule(f, use_cache) ==
    \E input_data \in Inputs :
        ExecuteRuleLeaves(f, use_cache, input_data,
                          execute_rule(f, input_data, use_cache, TRUE))

\* time passes: to the last second of a time-to-live, or by a whole one; Redis
\* drops the entries that have expired
Tick ==
    \E d \in {cache_ttl - 1, cache_ttl} :
        /\ now + d <= MaxTime
        /\ now' = now + d
        /\ redis' = [k \in {x \in DOMAIN redis : now + d < redis[x].expires} |-> redis[k]]
        /\ last' = Op("tick", "", FALSE, None, {}, -1, 0, 0)
        /\ UNCHANGED <<fs, pyDMNrules, rule_cache, file_mtimes, engines, last_modified, loads,
                       redis_client, threadVars, evalVars>>

\* the connection to Redis is lost, and comes back
RedisOutage ==
    /\ redis_client = "up"
    /\ redis_client' = "down"
    /\ last' = Op("redis", "", FALSE, None, {}, -1, 0, 0)
    /\ UNCHANGED <<fs, pyDMNrules, rule_cache, file_mtimes, engines, last_modified, loads,
                   redis, now, threadVars, evalVars>>

RedisRecovers ==
    /\ redis_client = "down"
    /\ redis_client' = "up"
    /\ last' = Op("redis", "", FALSE, None, {}, -1, 0, 0)
    /\ UNCHANGED <<fs, pyDMNrules, rule_cache, file_mtimes, engines, last_modified, loads,
                   redis, now, threadVars, evalVars>>

\* an engine constructed with or without a Redis client
InitExec ==
    /\ NothingLoaded
    /\ InitThreads
    /\ kind = "execute"
    /\ table = <<>>
    /\ ctx = <<>>
    /\ result = [done |-> FALSE, value |-> ExecNone]
    /\ redis = EmptyDict
    /\ redis_client \in {"absent", "up"}
    /\ now = 0

NextExec ==
    \/ \E f \in Files : ModifyFile(f)
    \/ \E f \in Files : DeleteFile(f)
    \/ \E f \in Files, use_cache \in BOOLEAN : ExecuteRule(f, use_cache)
    \/ Tick
    \/ RedisOutage
    \/ RedisRecovers

SpecExec == InitExec /\ [][NextExec]_vars

(* BillingDMNEngine._execute_with_xlsx_processor and the evaluators that take
   an order context, called with contexts that lack some of their facts *)

\* the rows of a table in a context with missing facts
MissingRules == 2

\* Python None where a number is expected
NoneNum == -1

\* what a call leaves: an exception, None, or a value
Raised == [raised |-> TRUE, none |-> FALSE, value |-> <<>>]
ReturnNone == [raised |-> FALSE, none |-> TRUE, value |-> <<>>]
Return(v) == [raised |-> FALSE, none |-> FALSE, value |-> v]

\* d.get(k1) or d.get(k2) or ...: the first value that is there and truthy,
\* else what the last get gives
RECURSIVE or_get(_, _, _, _, _)
or_get(d, keys, i, falsy, none) ==
    IF i > Len(keys)
    THEN none
    ELSE IF keys[i] \in DOMAIN d /\ d[keys[i]] # falsy
         THEN d[keys[i]]
         ELSE IF i = Len(keys) /\ keys[i] \in DOMAIN d
              THEN d[keys[i]]
              ELSE or_get(d, keys, i + 1, falsy, none)

\* evaluate_weight_class as Python calls it: gross_weight / 1000.0 raises
\* TypeError when gross_weight is None
weight_class_call(rules, container_length, gross_weight, preisraster) ==
    IF gross_weight = NoneNum
    THEN Raised
    ELSE Return(evaluate_weight_class(rules,
                    [container_length |-> container_length,
                     gross_weight |-> gross_weight,
                     preisraster |-> preisraster], 1))

\* lines 277-280: no trucking code or no trip type gives no result
trip_type_result(trucking_code, trip_type) ==
    IF trucking_code \in {"", NoneStr} \/ trip_type \in {"", NoneStr}
    THEN ReturnNone
    ELSE Return(trip_type)

\* lines 276-278: the trip type of a trucking code, asked for only when there
\* is one
trip_type_of_code(rules, trucking_code) ==
    trip_type_result(trucking_code,
                     IF trucking_code \in {"", NoneStr}
                     THEN NoneStr
                     ELSE evaluate_trip_type(rules, trucking_code, 1))

\* lines 275-280
xlsx_trip_type(rules, input_data) ==
    trip_type_of_code(rules,
        or_get(input_data, <<"TruckingCode", "truckingCode", "Trucking Code">>, 1, "", NoneStr))

\* lines 283-285: the three arguments taken from input_data
weight_class_length(input_data) ==
    or_get(input_data, <<"Length", "containerLength", "Laenge">>, 1, "", NoneStr)

weight_class_weight(input_data) ==
    or_get(input_data, <<"GrossWeight", "grossWeight", "Gewicht">>, 1, 0, NoneNum)

weight_class_grid(input_data) ==
    IF or_get(input_data, <<"Preisraster", "priceGrid">>, 1, "", "") = ""
    THEN "N"
    ELSE or_get(input_data, <<"Preisraster", "priceGrid">>, 1, "", "")

\* the weight class branch with neither its guard (line 287) nor the
\* try/except around it
xlsx_weight_class_unguarded(rules, input_data) ==
    weight_class_call(rules, weight_class_length(input_data),
                      weight_class_weight(input_data), weight_class_grid(input_data))

\* lines 294-295: an exception passes, a class that is None or empty gives
\* no result
weight_class_or_none(weight_class) ==
    IF ~weight_class.raised /\ weight_class.value \in {"", NoneStr}
    THEN ReturnNone
    ELSE weight_class

\* lines 287-295: the guard 'if container_length and gross_weight is not None'
weight_class_guarded(rules, container_length, gross_weight, preisraster) ==
    IF container_length \in {"", NoneStr} \/ gross_weight = NoneNum
    THEN ReturnNone
    ELSE weight_class_or_none(
             weight_class_call(rules, container_length, gross_weight, preisraster))

\* lines 282-295
xlsx_weight_class(rules, input_data) ==
    weight_class_guarded(rules, weight_class_length(input_data),
                         weight_class_weight(input_data), weight_class_grid(input_data))

\* lines 297-303: a list of services, empty or not, makes a result
xlsx_service_determination(rules, input_data) ==
    Return(evaluate_service_determination(rules,
               [verkehrsform |->
                    IF or_get(input_data, <<"TransportType", "transportType", "Verkehrsform">>,
                              1, "", "") = ""
                    THEN "Standard"
                    ELSE or_get(input_data, <<"TransportType", "transportType", "Verkehrsform">>,
                                1, "", ""),
                gefahrgut |-> or_get(input_data,
                                     <<"DangerousGood", "dangerousGoods", "Gefahrgut">>,
                                     1, FALSE, FALSE)], 1, <<>>))

\* the wrapper without the guard of the weight class branch and without its
\* except clause
execute_with_xlsx_unguarded(rule_name, rules, input_data) ==
    CASE rule_name = "trip_type" -> xlsx_trip_type(rules, input_data)
      [] rule_name = "weight_class" -> xlsx_weight_class_unguarded(rules, input_data)
      [] rule_name = "service_determination" -> xlsx_service_determination(rules, input_data)
      [] OTHER -> ReturnNone

\* lines 312-314: every exception gives None
none_when_raised(r) == IF r.raised THEN ReturnNone ELSE r

\* lines 269-314: the branch of the rule; a result that is None or empty,
\* and every exception, gives None
execute_with_xlsx(rule_name, rules, input_data) ==
    none_when_raised(
        CASE rule_name = "trip_type" -> xlsx_trip_type(rules, input_data)
          [] rule_name = "weight_class" -> xlsx_weight_class(rules, input_data)
          [] rule_name = "service_determination" ->
                 xlsx_service_determination(rules, input_data)
          [] OTHER -> ReturnNone)

\* a dict without the keys outside K
Restrict(d, K) == [k \in K |-> d[k]]

\* every context that has some of the facts of c
SubContexts(c) == {Restrict(c, K) : K \in SUBSET DOMAIN c}

RuleNames == {"trip_type", "weight_class", "service_determination"}

TripInput == [TruckingCode |-> "LB"]
WeightInput == [Length |-> "20", GrossWeight |-> 23000, Preisraster |-> "N"]
ServiceInput == [TransportType |-> "KV", Gefahrgut |-> TRUE]

TaxInput ==
    [service_type |-> "Transport", loading_status |-> "beladen",
     departure_location_type |-> "Inland", destination_location_type |-> "Inland",
     vat_id |-> "DE", vat_country |-> "DE", transport_direction |-> "Domestic",
     customs_procedure |-> "T1-NCTS"]

ServiceFullInput ==
    [service_type |-> "Hauptleistung Transport", loading_status |-> "beladen",
     transport_type |-> "KVS", dangerous_goods |-> TRUE, customs_procedure |-> "",
     departure_country |-> "DE", departure_station |-> "80155283",
     destination_country |-> "DE", destination_station |-> "80137943",
     service_date |-> "20250713"]

\* no call has returned
NoOutcome == [done |-> FALSE, raised |-> FALSE, none |-> TRUE, value |-> <<>>]

Outcome(r) == [done |-> TRUE, raised |-> r.raised, none |-> r.none, value |-> r.value]

ExecuteWithXlsxProcessor ==
    /\ kind \in RuleNames
    /\ ~result.done
    /\ result' = Outcome(execute_with_xlsx(kind, table, ctx))
    /\ UNCHANGED <<kind, table, ctx, notEval>>

\* evaluate_tax_calculation returns None when no rule matches
TaxCalculationOfContext ==
    /\ kind = "tax"
    /\ ~result.done
    /\ result' = Outcome(LET r == evaluate_tax_calculation(table, ctx, 1)
                         IN IF r = TaxNone THEN ReturnNone ELSE Return(r))
    /\ UNCHANGED <<kind, table, ctx, notEval>>

ServiceDeterminationOfContext ==
    /\ kind = "service_full"
    /\ ~result.done
    /\ result' = Outcome(Return(evaluate_service_determination_full(table, ctx)))
    /\ UNCHANGED <<kind, table, ctx, notEval>>

InitMissing ==
    /\ CachesIdle
    /\ result = NoOutcome
    /\ \/ /\ kind = "trip_type"
          /\ \E rows \in SeqsUpTo(TripRows, MissingRules) :
                table = extract_rules(TripHeaders, parse_rows(rows))
          /\ ctx \in SubContexts(TripInput)
       \/ /\ kind = "weight_class"
          /\ \E rows \in SeqsUpTo(WeightRows, MissingRules) :
                table = extract_rules(WeightHeaders, parse_rows(rows))
          /\ ctx \in SubContexts(WeightInput)
       \/ /\ kind = "service_determination"
          /\ \E rows \in SeqsUpTo(LegacyRows, MissingRules) :
                table = extract_rules(LegacyHeaders, parse_rows(rows))
          /\ ctx \in SubContexts(ServiceInput)
       \/ /\ kind = "tax"
          /\ table \in SeqsUpTo(TaxRows, MissingRules)
          /\ ctx \in SubContexts(TaxInput)
       \/ /\ kind = "service_full"
          /\ table \in SeqsUpTo(ServiceRows, MissingRules)
          /\ ctx \in SubContexts(ServiceFullInput)

NextMissing ==
    \/ ExecuteWithXlsxProcessor
    \/ TaxCalculationOfContext
    \/ ServiceDeterminationOfContext

SpecMissing == InitMissing /\ [][NextMissing]_vars

(* Weight classes at the limits: the weight-class table the repository
   generates, and DMNWeightClassification._fallback_weight_classification *)

\* the heaviest container, in tons, and the kilograms looked at on each
\* side of a limit
MaxTons == 35
Margin == 2

\* generate_dmn_xlsx_complete.py: the header row and the rules of the sheet
\* WeightClassification
GeneratedHeaders == <<"Preisraster", "Length", "GrossWeight", "WeightClass">>

GeneratedRows ==
    << <<"\"N\"", "\"20\"", "<=20", "20A">>,
       <<"\"N\"", "\"20\"", ">20", "20B">>,
       <<"\"N\"", "\"40\"", "<=10", "40A">>,
       <<"\"N\"", "\"40\"", "[10..20]", "40B">>,
       <<"\"N\"", "\"40\"", "[20..30]", "40C">>,
       <<"\"N\"", "\"40\"", ">30", "40D">> >>

\* the limits, in tons, that a table or the fallback mentions
Limits == {10, 20, 25, 30}

\* gross weights in kg: every whole ton, and the kilograms around each limit
BoundaryWeights ==
    {t * 1000 : t \in 0..MaxTons}
        \cup {l * 1000 + d : l \in Limits, d \in (0 - Margin)..Margin}

\* _fallback_weight_classification: weight_tons = gross_weight / 1000.0
\* against 20 and 25; gross_weight in kg is weight_tons in thousandths
fallback_weight_classification(container_length, gross_weight) ==
    IF container_length = "20"
    THEN IF gross_weight <= 20 * 1000 THEN "20A" ELSE "20B"
    ELSE IF container_length = "40"
         THEN IF gross_weight <= 25 * 1000 THEN "40A" ELSE "40B"
         ELSE "20A"

\* neither path has classified the container
Unclassified == [done |-> {}, table |-> NoneStr, fallback |-> NoneStr]

\* evaluate_weight_class on the loaded table
ClassifyByTable ==
    /\ kind = "boundary"
    /\ "table" \notin result.done
    /\ result' = [result EXCEPT !.done = @ \cup {"table"},
                                !.table = evaluate_weight_class(table, ctx, 1)]
    /\ UNCHANGED <<kind, table, ctx, notEval>>

ClassifyByFallback ==
    /\ kind = "boundary"
    /\ "fallback" \notin result.done
    /\ result' = [result EXCEPT !.done = @ \cup {"fallback"},
                                !.fallback = fallback_weight_classification(
                                                 ctx.container_length, ctx.gross_weight)]
    /\ UNCHANGED <<kind, table, ctx, notEval>>

InitBoundary ==
    /\ CachesIdle
    /\ kind = "boundary"
    /\ table = extract_rules(GeneratedHeaders, parse_rows(GeneratedRows))
    /\ ctx \in [container_length : {"20", "40"},
                gross_weight : BoundaryWeights,
                preisraster : {"N"}]
    /\ result = Unclassified

NextBoundary ==
    \/ ClassifyByTable
    \/ ClassifyByFallback

SpecBoundary == InitBoundary /\ [][NextBoundary]_vars

(* XLSXDMNProcessor.determine_service_789_from_123 *)

\* the services of a list, and the calls made on one list
MaxServices == 3
MaxCalls == 2

\* any(s.get('code') == code for s in services)
has_service(services, code) == \E i \in 1..Len(services) : services[i].code = code

\* the entry of service 789; additional_service_123_data is None, or a dict
\* (an empty one is falsy) whose quantities replace the defaults 5 and 8
service_789(additional_service_123_data) ==
    LET given == DOMAIN additional_service_123_data # {}
        quantity_netto == IF given
                          THEN DictGet(additional_service_123_data, "amount_netto", 5)
                          ELSE 5
        quantity_brutto == IF given
                           THEN DictGet(additional_service_123_data, "amount_brutto", 8)
                           ELSE 8
    IN [code |-> 789,
        name |-> "Wartezeit Export",
        rule_matched |-> "Auto-determined from service 123",
        quantity_netto |-> quantity_netto,
        quantity_brutto |-> quantity_brutto,
        unit |-> "Einheit",
        price_per_unit |-> 50,
        total_amount |-> quantity_netto * 50]

\* service 789 appended whenever service 123 is in the list
determine_service_789_always(services, additional_service_123_data) ==
    IF ~has_service(services, 123)
    THEN services
    ELSE Append(services, service_789(additional_service_123_data))

determine_service_789_from_123(services, additional_service_123_data) ==
    IF ~has_service(services, 123)
    THEN services
    ELSE IF has_service(services, 789)
         THEN services
         ELSE Append(services, service_789(additional_service_123_data))

\* the entries evaluate_service_determination_full puts into a list
DeterminedServices ==
    { [code |-> 123, name |-> "Zustellung Export", rule_matched |-> "Row 2"],
      [code |-> 456, name |-> "Sicherheitszuschlag KV", rule_matched |-> "Row 3"],
      [code |-> 789, name |-> "Wartezeit Export", rule_matched |-> "Row 4"] }

\* additional_service_123_data: None and the empty dict, a dict with both
\* quantities, a dict with one
Service123Data ==
    { EmptyDict,
      [amount_netto |-> 3, amount_brutto |-> 4],
      [amount_netto |-> 2] }

\* the list before the first call
NotDetermined(services) == [calls |-> 0, first |-> <<>>, value |-> services]

\* one call on the list; the list is changed in place, so the next call
\* gets what this one left
DetermineService789 ==
    /\ kind = "service_789"
    /\ result.calls < MaxCalls
    /\ LET services == determine_service_789_from_123(result.value, ctx)
       IN result' = [calls |-> result.calls + 1,
                     first |-> IF result.calls = 0 THEN services ELSE result.first,
                     value |-> services]
    /\ UNCHANGED <<kind, table, ctx, notEval>>

InitAuto ==
    /\ CachesIdle
    /\ kind = "service_789"
    /\ table \in SeqsUpTo(DeterminedServices, MaxServices)
    /\ ctx \in Service123Data
    /\ result = NotDetermined(table)

NextAuto == DetermineService789

SpecAuto == InitAuto /\ [][NextAuto]_vars

(* XLSXTaxProcessor.calculate_tax_for_transport *)

\* the rule rows of the tax file of a call
MaxTaxRules == 2

\* lines 273-286: the order context built from the arguments; an argument
\* left at None is NoneStr
transport_order_context(a) ==
    [service_type |-> "Transport",
     loading_status |-> a.loading_status,
     departure_location_type |->
         IF Upper(a.departure_country) = "DE" THEN "Inland" ELSE "Ausland",
     destination_location_type |->
         IF Upper(a.destination_country) = "DE" THEN "Inland" ELSE "Ausland",
     vat_id |-> IF a.vat_id \in {NoneStr, ""} THEN "keine" ELSE a.vat_id,
     vat_country |-> Upper(a.destination_country),
     transport_direction |-> a.transport_direction,
     customs_procedure |->
         IF a.customs_procedure \in {NoneStr, ""} THEN "" ELSE a.customs_procedure]

\* lines 293-325: the fallback result of a direction
fallback_tax(transport_direction) ==
    IF Lower(transport_direction) = "export"
    THEN [apply_vat |-> "False", tax_case |-> "§ 4 Nr. 3a UStG", tax_rate |-> 0,
          display_notice |-> "False", sap_vat_indicator |-> "A1",
          central_notification |-> "False", rule_matched |-> "Fallback Export Rule"]
    ELSE IF Lower(transport_direction) = "import"
         THEN [apply_vat |-> "False", tax_case |-> "Reverse Charge", tax_rate |-> 0,
               display_notice |-> "False", sap_vat_indicator |-> "RC",
               central_notification |-> "False", rule_matched |-> "Fallback Import Rule"]
         ELSE [apply_vat |-> "True", tax_case |-> "Standard VAT", tax_rate |-> 19,
               display_notice |-> "False", sap_vat_indicator |-> "B1",
               central_notification |-> "False", rule_matched |-> "Fallback Domestic Rule"]

\* evaluate_tax_calculation on the file: None when the file does not exist
tax_of_file(file_exists, rows, order_context) ==
    IF file_exists THEN evaluate_tax_calculation(rows, order_context, 1) ELSE TaxNone

\* the method without its fallback
calculate_tax_without_fallback(file_exists, rows, a) ==
    LET r == tax_of_file(file_exists, rows, transport_order_context(a))
    IN [none |-> r = TaxNone, value |-> r]

calculate_tax_for_transport(file_exists, rows, a) ==
    LET r == tax_of_file(file_exists, rows, transport_order_context(a))
    IN IF r # TaxNone
       THEN [none |-> FALSE, value |-> r]
       ELSE [none |-> FALSE, value |-> fallback_tax(a.transport_direction)]

\* the arguments of a call
TransportArguments ==
    [transport_direction : {"Export", "Import", "Domestic", "export"},
     departure_country : {"DE", "US"},
     destination_country : {"DE", "US"},
     vat_id : {NoneStr, "DE123456789"},
     customs_procedure : {NoneStr, "T1-NCTS"},
     loading_status : {"beladen"}]

\* no call has returned
NoTax == [done |-> FALSE, none |-> TRUE, value |-> TaxNone]

CalculateTaxForTransport ==
    /\ kind \in {"tax_file", "tax_no_file"}
    /\ ~result.done
    /\ LET r == calculate_tax_for_transport(kind = "tax_file", table, ctx)
       IN result' = [done |-> TRUE, none |-> r.none, value |-> r.value]
    /\ UNCHANGED <<kind, table, ctx, notEval>>

\* the tax file with its rule rows, or no tax file
InitTransport ==
    /\ CachesIdle
    /\ result = NoTax
    /\ ctx \in TransportArguments
    /\ \/ kind = "tax_file" /\ table \in SeqsUpTo(TaxRows, MaxTaxRules)
       \/ kind = "tax_no_file" /\ table = <<>>

NextTransport == CalculateTaxForTransport

SpecTransport == InitTransport /\ [][NextTransport]_vars

(* The rows of a sheet and the identifiers of the rules built from them:
   XLSXDMNProcessor._parse_sheet / _extract_rules_from_sheet and
   XLSXPriceLoader._parse_sheet / _extract_prices_from_sheet *)

\* the data rows of a sheet
MaxSheetRows == 3

\* XLSXPriceLoader._extract_prices_from_sheet: entry i (from 0) of the kept
\* rows gets row_id i + 2; its data maps each header to the row's cell
extract_prices(headers, rows) ==
    [i \in 1..Len(rows) |->
        [row_id |-> (i - 1) + 2,
         data |-> [h \in {headers[j] : j \in {k \in 1..Len(headers) :
                                               k <= Len(rows[i]) /\ rows[i][k] # ""}} |->
                      rows[i][Min({k \in 1..Len(headers) : headers[k] = h})]]]]

\* the header row and the data rows of a sheet, separator rows among them
SheetHeaders == <<"Trucking Code", "TypeOfTrip">>

SheetRows ==
    { <<"LB", "Zustellung">>, <<"AB", "Abholung">>, <<"LC", "Leercontainer">>, <<"", "">> }

\* the rules of a rule workbook's sheet
ParseRuleSheet ==
    /\ kind = "rule_sheet"
    /\ ~result.done
    /\ result' = [done |-> TRUE, value |-> extract_rules(SheetHeaders, parse_rows(table))]
    /\ UNCHANGED <<kind, table, ctx, notEval>>

\* the price entries of a price workbook's sheet
ParsePriceSheet ==
    /\ kind = "price_sheet"
    /\ ~result.done
    /\ result' = [done |-> TRUE, value |-> extract_prices(SheetHeaders, parse_rows(table))]
    /\ UNCHANGED <<kind, table, ctx, notEval>>

InitSheet ==
    /\ CachesIdle
    /\ kind \in {"rule_sheet", "price_sheet"}
    /\ table \in SeqsUpTo(SheetRows, MaxSheetRows)
    /\ ctx = <<>>
    /\ result = [done |-> FALSE, value |-> <<>>]

NextSheet ==
    \/ ParseRuleSheet
    \/ ParsePriceSheet

SpecSheet == InitSheet /\ [][NextSheet]_vars

(* XLSXDMNProcessor._parse_sheet and _parse_workbook on a grid with a marker
   cell, and the cache entry load_rule_file writes *)

\* the data rows of a grid
MaxDataRows == 2

\* the hit policy tokens _parse_sheet recognises in cell A2
hit_policy_tokens == {"U", "A", "P", "F", "R", "O", "C", "C+", "C<", "C>", "C#"}

\* sheet.sheet_cell(row, col).value, "" for None; a grid is a sequence of rows
sheet_cell(sheet, row, col) ==
    IF row <= Len(sheet) /\ col <= Len(sheet[row]) THEN sheet[row][col] ELSE ""

max_column(sheet) == IF Len(sheet) = 0 THEN 0 ELSE Len(sheet[1])

\* the header cells of a row from column first on; an empty one is named
\* after its column
header_cells(sheet, row, first) ==
    [j \in 1..(max_column(sheet) - first + 1) |->
        IF sheet_cell(sheet, row, j + first - 1) # ""
        THEN Strip(sheet_cell(sheet, row, j + first - 1))
        ELSE "Col_" \o ToString(j + first - 1)]

\* a data cell of a decision table: stripped, outer quotes removed
clean_cell(value) ==
    LET value_str == Strip(value)
    IN IF StartsWith(value_str, "\"") /\ Len(value_str) > 0
          /\ Char(value_str, Len(value_str)) = "\""
       THEN SubSeq(value_str, 2, Len(value_str) - 1)
       ELSE value_str

\* the data rows from row and column first on, all-empty rows among them
data_rows(sheet, first_row, first_col, dmn) ==
    [i \in 1..(IF Len(sheet) >= first_row THEN Len(sheet) - first_row + 1 ELSE 0) |->
        [j \in 1..(max_column(sheet) - first_col + 1) |->
            IF dmn
            THEN clean_cell(sheet_cell(sheet, i + first_row - 1, j + first_col - 1))
            ELSE Strip(sheet_cell(sheet, i + first_row - 1, j + first_col - 1))]]

\* _parse_sheet: a decision table when cell A2 holds a hit policy token, a
\* regular sheet (headers in row 1, data from row 2) otherwise; it never fails
parse_sheet(sheet) ==
    IF Len(sheet) < 1
    THEN [is_dmn_table |-> FALSE, hit_policy |-> "",
          headers |-> <<>>, rows |-> <<>>]
    ELSE IF sheet_cell(sheet, 2, 1) # "" /\ Strip(sheet_cell(sheet, 2, 1)) \in hit_policy_tokens
         THEN [is_dmn_table |-> TRUE,
               hit_policy |-> Strip(sheet_cell(sheet, 2, 1)),
               headers |-> header_cells(sheet, 2, 2),
               rows |-> parse_rows(data_rows(sheet, 3, 2, TRUE))]
         ELSE [is_dmn_table |-> FALSE, hit_policy |-> "",
               headers |-> header_cells(sheet, 1, 1),
               rows |-> parse_rows(data_rows(sheet, 2, 1, FALSE))]

\* _parse_workbook of a workbook of one sheet: the sheet data and its rules
parse_workbook(sheet) ==
    LET sheet_data == parse_sheet(sheet)
    IN [file_name |-> "rules.xlsx",
        sheet |-> sheet_data,
        rules |-> IF Len(sheet_data.headers) > 0 /\ Len(sheet_data.rows) > 0
                  THEN extract_rules(sheet_data.headers, sheet_data.rows)
                  ELSE <<>>]

\* Python None where rule data is expected
NoRuleData ==
    [file_name |-> NoneStr,
     sheet |-> [is_dmn_table |-> FALSE, hit_policy |-> "", headers |-> <<>>, rows |-> <<>>],
     rules |-> <<>>]

\* load_rule_file, lines 50-58, on a file that is newer than the cache
\* entry: the parsed workbook is stored and returned
load_workbook(cached, sheet) ==
    [cache |-> parse_workbook(sheet), ret |-> parse_workbook(sheet)]

\* the cells a rule author can leave in the marker cell A2
MarkerCells == {"U", "C", "C+", "", "X", "Unique"}

GridDataRows ==
    { <<"", "LB", "Zustellung">>, <<"1", "\"AB\"", "Abholung">>, <<"", "", "">> }

\* a sheet: the table name in A1, the marker and the headers, the data rows
Sheets ==
    { << <<"TripType", "", "">>, <<marker, "Trucking Code", "TypeOfTrip">> >> \o rows :
        marker \in MarkerCells, rows \in SeqsUpTo(GridDataRows, MaxDataRows) }

\* the version of the table in the cache, None when there is none
CachedVersions ==
    { NoRuleData,
      parse_workbook(<< <<"TripType", "", "">>, <<"U", "Trucking Code", "TypeOfTrip">>,
                        <<"", "LC", "Leercontainer">> >>) }

\* load_rule_file on the saved sheet; ctx is the cache entry before the call
LoadSheet ==
    /\ kind = "sheet"
    /\ ~result.done
    /\ LET r == load_workbook(ctx, table)
       IN result' = [done |-> TRUE, cache |-> r.cache, ret |-> r.ret]
    /\ UNCHANGED <<kind, table, ctx, notEval>>

InitMarker ==
    /\ CachesIdle
    /\ kind = "sheet"
    /\ table \in Sheets
    /\ ctx \in CachedVersions
    /\ result = [done |-> FALSE, cache |-> ctx, ret |-> NoRuleData]

NextMarker == LoadSheet

SpecMarker == InitMarker /\ [][NextMarker]_vars

----------------------------------------------------------------------------
(* Claims about the Unique evaluators (specification SpecUnique) *)

\* the rules of the weight table that match the context
WeightMatching == {i \in 1..Len(table) : weight_rule_matches(table[i], ctx)}
\* the rows of the tax table that match the context
TaxMatching ==
    {i \in 1..Len(table) : tax_row_scanned(table[i]) /\ tax_row_matches(table[i], ctx)}

\* C1: whenever rules of a Unique table match the context, evaluation returns
\* the outputs of the first matching rule in row order, never those of a
\* later rule.
C1_FirstMatchingRuleWins ==
    result.done =>
        /\ (kind = "weight" /\ WeightMatching # {}) =>
               result.value = weight_rule_class(table[Min(WeightMatching)])
        /\ (kind = "tax" /\ TaxMatching # {}) =>
               result.value = tax_result(table[Min(TaxMatching)],
                                         Min(TaxMatching) + FirstTaxRow - 1)

\* the rules of the trip type table that match the context
TripMatching == {i \in 1..Len(table) : trip_rule_matches(table[i], ctx.trucking_code)}

\* C21: when no rule of a table matches the context, including when the table
\* has no rule rows, Unique evaluation returns none: no default output is
\* substituted.
C21_NoMatchYieldsNone ==
    result.done =>
        /\ (kind = "weight" /\ WeightMatching = {}) => result.value = NoneStr
        /\ (kind = "tax" /\ TaxMatching = {}) => result.value = TaxNone
        /\ (kind = "trip" /\ TripMatching = {}) => result.value = NoneStr

\* the cell of a rule under an input column is empty (the rule has no such
\* condition) or holds the wildcard token
WildcardCell(rule, header) ==
    header \notin DOMAIN rule.conditions \/ rule.conditions[header] = "-"

\* C17: an input cell that is empty or holds the wildcard token '-' is a
\* Wildcard: the rule's condition on that column (the length and weight
\* columns of the weight-class table included) matches whatever the context
\* supplies.  So the first rule of the table, when each of its input cells is
\* a wildcard or is matched by the context, gives the weight class.
C17_EmptyOrDashCellIsWildcard ==
    (/\ result.done
     /\ kind = "weight"
     /\ Len(table) > 0
     /\ weight_rule_class(table[1]) # NoneStr
     /\ WildcardCell(table[1], "Preisraster") \/ preisraster_match(table[1], ctx.preisraster)
     /\ WildcardCell(table[1], "Länge") \/ length_match(table[1], ctx.container_length)
     /\ WildcardCell(table[1], "Gewicht") \/ weight_match(table[1], ctx.gross_weight)) =>
        result.value = weight_rule_class(table[1])

----------------------------------------------------------------------------
(* Claims about the Collect evaluators (specification SpecCollect) *)

\* the rules of the table that match the context and have a service code
\* to contribute, in row order, for either evaluator
RECURSIVE CollectMatching(_)
CollectMatching(i) ==
    IF i > Len(table)
    THEN <<>>
    ELSE (IF \/ /\ kind = "service_legacy"
                /\ legacy_rule_matches(table[i], ctx)
                /\ "AdditionalServiceCode" \in DOMAIN table[i].outputs
             \/ /\ kind = "service_full"
                /\ service_row_scanned(table[i])
                /\ service_row_matches(table[i], ctx)
                /\ Cell(table[i], 12) # ""
          THEN <<i>> ELSE <<>>) \o CollectMatching(i + 1)

\* C2: when N rules of a Collect table match the context (counting the
\* rules that have a service code at all) the result has exactly N rows, the
\* k-th being the output of the k-th matching rule, so that equal service
\* codes of two matching rules appear twice.
C2_CollectReturnsEveryMatch ==
    result.done =>
        LET M == CollectMatching(1)
        IN /\ Len(result.value) = Len(M)
           /\ kind = "service_legacy" =>
                 \A k \in 1..Len(M) :
                     result.value[k] =
                         ParseInt(table[M[k]].outputs["AdditionalServiceCode"]).val
           /\ kind = "service_full" =>
                 \A k \in 1..Len(M) :
                     result.value[k] = service_dict(table[M[k]], M[k] + FirstServiceRow - 1)

\* what evaluate_service_determination_full alone returns: one row for each
\* matching rule with a service code, in row order, duplicates kept
CollectFullKeepsDuplicates ==
    (result.done /\ kind = "service_full") =>
        LET M == CollectMatching(1)
        IN /\ Len(result.value) = Len(M)
           /\ \A k \in 1..Len(M) :
                 result.value[k] = service_dict(table[M[k]], M[k] + FirstServiceRow - 1)

\* the exact-value input columns of the service determination sheet and the
\* context fact each is compared with
ExactColumns ==
    { <<1, "service_type">>, <<2, "loading_status">>, <<3, "transport_type">>,
      <<5, "customs_procedure">>, <<6, "departure_country">>, <<7, "departure_station">>,
      <<8, "destination_country">>, <<9, "destination_station">> }

\* Equals: a wildcard cell matches; any other cell matches iff the fact is
\* present and is the same string as the cell without its quotes
EqualsHolds(cell, c, key) ==
    NonBlank(cell) => (key \in DOMAIN c /\ c[key] = StripChars(cell, {"\""}))

\* sheet row i + 1 is among the services returned
RowReturned(i) ==
    \E k \in 1..Len(result.value) : result.value[k].rule_matched = i + FirstServiceRow - 1

\* C18: for every non-wildcard exact-value input cell the rule's condition
\* matches iff the context's fact for that column is present and equal to the
\* cell value as a case-sensitive string.  So a row with a service code and no
\* other kind of condition is returned iff every exact-value cell of it is a
\* wildcard or equals the fact.
C18_ExactCellMatchesIffEqual ==
    (result.done /\ kind = "service_full") =>
        \A i \in 1..Len(table) :
            (/\ service_row_scanned(table[i])
             /\ ParseInt(Cell(table[i], 12)).ok
             /\ Cell(table[i], 4) = ""
             /\ Cell(table[i], 10) = ""
             /\ Cell(table[i], 11) = "") =>
                (RowReturned(i) <=>
                    \A e \in ExactColumns : EqualsHolds(Cell(table[i], e[1]), ctx, e[2]))

----------------------------------------------------------------------------
(* Claims about price ranking (specification SpecRank) *)

\* the candidate rows: those the lookup appended to matches
RankCandidates ==
    {i \in 1..Len(table) :
        IF kind = "price_main"
        THEN main_candidate(table[i], ctx)
        ELSE additional_candidate(table[i], ctx)}

RankScore(i) ==
    IF kind = "price_main"
    THEN main_specificity(table[i], ctx)
    ELSE additional_specificity(table[i], ctx)

RankEntry(i) ==
    IF kind = "price_main" THEN main_match(table[i], ctx) ELSE additional_match(table[i], ctx)

\* the lookup got as far as ranking its candidates (no exception before)
RankerReached ==
    IF kind = "price_main"
    THEN ctx.service_date # NoneStr /\ \A i \in RankCandidates : ParseFloat(Col(table[i], 17)).ok
    ELSE \A i \in RankCandidates : ParseFloat(Col(table[i], 19)).ok

\* C3: for every set of candidate rows the ranker returns the row with the
\* highest specificity score, and among rows sharing the highest score the
\* one earliest in row order.
C3_HighestScoreEarliestRowWins ==
    (result.done /\ kind \in {"price_main", "price_additional"}
        /\ RankerReached /\ RankCandidates # {}) =>
        \E best \in RankCandidates :
            /\ \A j \in RankCandidates :
                  \/ RankScore(j) < RankScore(best)
                  \/ RankScore(j) = RankScore(best) /\ best <= j
            /\ result.value = RankEntry(best)

\* a lower-scoring candidate comes first, two later candidates share the
\* highest score with different prices, and the earlier of the two is returned
C3_Witness ==
    /\ result.done
    /\ kind = "price_main"
    /\ RankerReached
    /\ \E k, i, j \in RankCandidates :
          /\ k < i /\ i < j
          /\ RankScore(k) < RankScore(i)
          /\ RankScore(i) = RankScore(j)
          /\ RankEntry(i) # RankEntry(j)
          /\ result.value = RankEntry(i)

\* the rows a price author expects to be candidates: not blank, passing the
\* required columns and the validity window as the lookup checks them, and
\* carrying a price; the additional lookup requires the service code
RankEligible ==
    {i \in 1..Len(table) :
        IF kind = "price_main"
        THEN /\ AnyCell(table[i])
             /\ main_required(table[i], ctx)
             /\ date_in_window(ctx.service_date, Col(table[i], 15), Col(table[i], 16))
             /\ Col(table[i], 17) # ""
        ELSE additional_candidate(table[i], ctx)}

RankNone == IF kind = "price_main" THEN MainNone ELSE AdditionalNone

\* C11: a row is excluded from the candidate set exactly when it fails a
\* required column or its validity window; a row that matches no optional
\* column (score 0) is still returned when no higher-scoring candidate exists.
C11_ScoreZeroRowStillReturned ==
    (result.done /\ kind \in {"price_main", "price_additional"} /\ RankerReached) =>
        /\ RankCandidates = RankEligible
        /\ RankEligible # {} => result.value # RankNone

\* the score the claim gives a row: every optional column that is present and
\* equal to the context's fact adds its weight, whatever the other columns do
MatchWeight(cell, fact, weight) == IF cell # "" /\ cell = fact THEN weight ELSE 0

IndependentScore(i) ==
    IF kind = "price_main"
    THEN MatchWeight(Col(table[i], 2), ctx.customer_code, 1000)
         + MatchWeight(Col(table[i], 1), ctx.customer_group, 100)
         + MatchWeight(Col(table[i], 0), ctx.offer_number, 50)
         + MatchWeight(Col(table[i], 4), ctx.departure_station, 10)
         + MatchWeight(Col(table[i], 7), ctx.destination_station, 10)
         + MatchWeight(Col(table[i], 5), ctx.tariff_point_dep, 5)
         + MatchWeight(Col(table[i], 8), ctx.tariff_point_dest, 5)
         + MatchWeight(Col(table[i], 10), ctx.loading_status, 2)
         + MatchWeight(Col(table[i], 11), ctx.transport_form, 2)
    ELSE MatchWeight(Col(table[i], 2), ctx.customer_code, 1000)
         + MatchWeight(Col(table[i], 3), ctx.customer_group, 100)
         + MatchWeight(Col(table[i], 6), ctx.departure_station, 10)
         + MatchWeight(Col(table[i], 8), ctx.destination_station, 10)
         + MatchWeight(Col(table[i], 9), ctx.loading_status, 2)
         + MatchWeight(Col(table[i], 10), ctx.transport_form, 2)
         + MatchWeight(Col(table[i], 15), ctx.container_length, 2)

\* C12: the specificity score of the returned row is the sum of the weights
\* of all optional columns whose value is present and equals the context's
\* fact, each column checked independently: a row matching both customer id
\* and customer group scores the sum of both weights.
C12_ScoreIsSumOfMatchedWeights ==
    (result.done /\ kind \in {"price_main", "price_additional"}
        /\ RankerReached /\ result.value # RankNone) =>
        \A i \in RankCandidates :
            RankEntry(i) = result.value => result.value.specificity = IndependentScore(i)

\* the rows whose customer id is present and equals the context's
CustomerRows ==
    {i \in RankCandidates : Col(table[i], 2) # "" /\ Col(table[i], 2) = ctx.customer_code}

\* C13: the customer-id weight exceeds the sum of all other optional-column
\* weights: a candidate row whose customer id equals the context's outranks
\* every candidate row whose customer id does not, whatever other optional
\* columns either row matches, so the lookup returns a customer row.
C13_CustomerRowOutranksOthers ==
    (result.done /\ kind \in {"price_main", "price_additional"}
        /\ RankerReached /\ CustomerRows # {}) =>
        /\ \A i \in CustomerRows, j \in RankCandidates \ CustomerRows :
              RankScore(i) > RankScore(j)
        /\ \E i \in CustomerRows : result.value = RankEntry(i)

\* a row matching customer group, departure station and loading status comes
\* first in the table, the customer's own row later, and the customer's row
\* is returned
C13_Witness ==
    /\ result.done
    /\ kind = "price_main"
    /\ RankerReached
    /\ \E j \in RankCandidates \ CustomerRows, i \in CustomerRows :
          /\ j < i
          /\ RankScore(j) > 100
          /\ RankEntry(i) # RankEntry(j)
          /\ result.value = RankEntry(i)

\* the day a date text stands for, as the number yyyymmdd
DateValue(text) ==
    CASE text = "2025-07-13" -> 20250713
      [] text = "20240101" -> 20240101
      [] text = "20241231" -> 20241231
      [] text = "20260101" -> 20260101
      [] OTHER -> 0

\* the cells of row i that declare its validity window
ValidFrom(i) == IF kind = "price_main" THEN Col(table[i], 15) ELSE Col(table[i], 16)

ValidTo(i) == IF kind = "price_main" THEN Col(table[i], 16) ELSE Col(table[i], 17)

\* the context's date lies in the window of row i, a missing bound leaving
\* that side unbounded
InDeclaredWindow(i) ==
    /\ ValidFrom(i) # "" => DateValue(ValidFrom(i)) <= DateValue(ctx.service_date)
    /\ ValidTo(i) # "" => DateValue(ctx.service_date) <= DateValue(ValidTo(i))

\* C19: when a rule declares a validity window and the context supplies a
\* date, the rule matches only if valid_from <= date <= valid_to, a missing
\* bound leaving that side unbounded: a row with only one bound set is still
\* rejected for a date outside that bound, so it is never the row returned.
C19_OneBoundStillRejects ==
    (result.done /\ kind \in {"price_main", "price_additional"}
        /\ ctx.service_date = "2025-07-13" /\ result.value # RankNone) =>
        \A i \in RankCandidates : RankEntry(i) = result.value => InDeclaredWindow(i)

\* the table with the validity window of every row removed
WithoutWindows ==
    [i \in 1..Len(table) |->
        IF kind = "price_main"
        THEN [table[i] EXCEPT ![16] = "", ![17] = ""]
        ELSE [table[i] EXCEPT ![17] = "", ![18] = ""]]

\* C20: when the context supplies no date (None or empty) the validity-window
\* check of every row is skipped and treated as a match: the lookup returns
\* what it returns for the same rows without windows, rather than failing or
\* returning nothing.
C20_NoDateSkipsWindowCheck ==
    (result.done /\ kind \in {"price_main", "price_additional"}
        /\ ctx.service_date \in {"", NoneStr}) =>
        result.value =
            IF kind = "price_main"
            THEN get_main_service_price_advanced(WithoutWindows,
                                                 [ctx EXCEPT !.service_date = ""])
            ELSE get_additional_service_price_advanced(WithoutWindows,
                                                       [ctx EXCEPT !.service_date = ""])

----------------------------------------------------------------------------
(* Claims about condition cells (specification SpecCondition) *)

\* the number a bound or threshold stands for, in thousandths
BoundValue(text) ==
    CASE text = "10" -> 10000
      [] text = "20" -> 20000
      [] text = "20.5" -> 20500
      [] OTHER -> -1

\* n op t
Holds(n, op, t) ==
    CASE op = "<" -> n < t
      [] op = "<=" -> n <= t
      [] op = ">" -> n > t
      [] op = ">=" -> n >= t
      [] op = "=" -> n = t

\* C14: for every numeric fact n, every threshold t and every operator op in
\* {<, <=, >, >=, =}, a comparison cell 'op t' matches n iff n op t holds;
\* two-character operators are recognised before one-character ones.
C14_ComparisonMatchesIffHolds ==
    (result.done /\ kind = "condition" /\ ctx.cell.form = "comparison") =>
        (result.value <=> Holds(ctx.actual_weight, ctx.cell.left, BoundValue(ctx.cell.lower)))

\* the cell '<=20' has been evaluated on 20 t and has matched
C14_Witness ==
    /\ result.done
    /\ kind = "condition"
    /\ ctx.actual_weight = 20000
    /\ table = <<"<=20">>
    /\ result.value

\* a range cell whose two bounds are numbers
NumericRange ==
    /\ kind = "condition"
    /\ ctx.cell.form = "range"
    /\ BoundValue(ctx.cell.lower) # -1
    /\ BoundValue(ctx.cell.upper) # -1

\* the fact lies within the bounds of the cell, each side inclusive or not
InRange(left_inclusive, right_inclusive) ==
    /\ IF left_inclusive THEN BoundValue(ctx.cell.lower) <= ctx.actual_weight
                         ELSE BoundValue(ctx.cell.lower) < ctx.actual_weight
    /\ IF right_inclusive THEN ctx.actual_weight <= BoundValue(ctx.cell.upper)
                          ELSE ctx.actual_weight < BoundValue(ctx.cell.upper)

C16_MalformedBoundIsWildcard ==
    (result.done /\ kind = "condition" /\ ctx.cell.form = "range"
        /\ ctx.cell.left = "[" /\ ctx.cell.right = "]"
        /\ (BoundValue(ctx.cell.lower) = -1 \/ BoundValue(ctx.cell.upper) = -1)) =>
        result.value

----------------------------------------------------------------------------
(* Claims about the result cache (specification SpecExec) *)

\* C10: whatever rule-source changes and execute_rule calls came before, a
\* call of execute_rule with the result cache enabled returns what the same
\* call returns with the result cache disabled (stated for the calls whose
\* evaluation without the cache yields a result).
C10_ResultCacheNeverChangesResult ==
    [][(last'.op = "execute_rule" /\ ctx'.use_cache) =>
          LET uncached == execute_rule(last'.file, ctx'.input_data, FALSE, TRUE).ret
          IN uncached # ExecNone => result'.value = uncached]_vars

----------------------------------------------------------------------------
(* Claims about the rule caches (specification Spec) *)

\* C4: for a rule that is already loaded, a get whose fingerprint is not
\* newer than the stored one builds no table, returns the cached table
\* object itself and leaves the stored table and fingerprint as they were
\* (XLSX rule cache and engine cache alike), on every such get.
C4_UnchangedFingerprintNoReload ==
    [][ /\ \A f \in Files :
             ( /\ last'.op = "load_rule_file" /\ last'.file = f /\ ~last'.force
               /\ f \in DOMAIN rule_cache
               /\ fs[f].exists
               /\ fs[f].mtime <= DictGet(file_mtimes, f, 0) )
             => ( /\ loads' = loads
                  /\ last'.ret = rule_cache[f]
                  /\ rule_cache' = rule_cache
                  /\ file_mtimes' = file_mtimes )
        /\ \A r \in Files :
             ( /\ last'.op = "get_engine" /\ last'.file = r /\ ~last'.force
               /\ r \in DOMAIN engines
               /\ fs[r].exists
               /\ fs[r].mtime <= DictGet(last_modified, r, 0) )
             => ( /\ loads' = loads
                  /\ last'.ret = engines[r]
                  /\ engines' = engines
                  /\ last_modified' = last_modified )
      ]_vars

\* C4 witness: an unforced load_rule_file has just returned a table without
\* building one, after the file's table had been built more than once
C4_Witness ==
    /\ last.op = "load_rule_file" /\ ~last.force
    /\ last.built = 0
    /\ last.ret # None
    /\ last.ret.inst >= 2

\* C5: a get for an unloaded rule, or one that supplies a fingerprint newer
\* than the stored one, whose load succeeds, leaves in the cache a new table
\* built from the file's current grid together with the supplied
\* fingerprint, returns that table, and an unforced get that then supplies
\* the stored fingerprint again returns the table the cache holds.
C5_StaleOrUnloadedLoadsNewTable ==
    [][ /\ \A f \in Files :
             ( /\ last'.op = "load_rule_file" /\ last'.file = f
               /\ last'.failed = {}
               /\ \/ f \notin DOMAIN rule_cache
                  \/ last'.fp > DictGet(file_mtimes, f, 0) )
             => ( /\ f \in DOMAIN rule_cache'
                  /\ rule_cache'[f].grid = fs[f].grid
                  /\ rule_cache'[f].inst > loads
                  /\ file_mtimes'[f] = last'.fp
                  /\ last'.ret = rule_cache'[f] )
        /\ \A f \in Files :
             ( /\ last'.op = "load_rule_file" /\ last'.file = f /\ ~last'.force
               /\ f \in DOMAIN rule_cache
               /\ last'.fp = DictGet(file_mtimes, f, 0) )
             => last'.ret = rule_cache[f]
        /\ \A r \in Files :
             ( /\ last'.op = "get_engine" /\ last'.file = r
               /\ last'.failed = {}
               /\ \/ r \notin DOMAIN engines
                  \/ fs[r].exists /\ fs[r].mtime > DictGet(last_modified, r, 0) )
             => ( /\ r \in DOMAIN engines'
                  /\ engines'[r].grid = fs[r].grid
                  /\ engines'[r].inst > loads
                  /\ last_modified'[r] = fs[r].mtime
                  /\ last'.ret = engines'[r] )
      ]_vars

\* C5 witness: a get has just replaced an older table by a newly built one
\* that reflects a different grid
C5_Witness ==
    /\ last.op = "load_rule_file" /\ ~last.force
    /\ last.built = 1
    /\ last.ret.inst >= 2
    /\ last.ret.grid = 2

\* C6: whenever a get, a forced reload or a reload-all fails to load a rule
\* that had a cached table, that table and its fingerprint are in the cache
\* afterwards exactly as before (stated for both caches).
C6_FailedLoadKeepsEntry ==
    [][ /\ \A f \in Files :
             ( /\ last'.op \in {"load_rule_file", "reload_rules"}
               /\ f \in last'.failed
               /\ f \in DOMAIN rule_cache )
             => ( /\ f \in DOMAIN rule_cache' /\ rule_cache'[f] = rule_cache[f]
                  /\ f \in DOMAIN file_mtimes' /\ file_mtimes'[f] = file_mtimes[f] )
        /\ \A r \in Files :
             ( /\ last'.op \in {"get_engine", "reload_all_rules"}
               /\ r \in last'.failed
               /\ r \in DOMAIN engines )
             => ( /\ r \in DOMAIN engines' /\ engines'[r] = engines[r]
                  /\ last_modified' = last_modified )
      ]_vars

\* C7: an invalidation (DELETE /dmn/cache, DELETE /dmn/cache/{rule_name})
\* completes without error and leaves the rule unloaded.
C7_InvalidateUnloads ==
    last.op = "clear_cache"
    => /\ last.status = 200
       /\ \A r \in Files : (last.file \in {"", r}) => r \notin DOMAIN engines

----------------------------------------------------------------------------
(* Claims about concurrent callers (specification SpecConc) *)

\* C8: when several gets for the same stale rule run concurrently, at most
\* one of them is reloading that rule at any time.
C8_AtMostOneReloadInFlight ==
    \A f \in Files :
        Cardinality({t \in Threads : /\ pc[t] \in InFlight
                                     /\ loc[t].file = f
                                     /\ loc[t].stale}) <= 1

\* C9: in every state a reader can observe, the cached table and the cached
\* fingerprint of a rule were written by the same load.
C9_TableAndFingerprintFromSameLoad ==
    \A f \in Files : DictGet(rule_cache, f, None).inst = mtime_inst[f]

----------------------------------------------------------------------------
(* Claims about contexts with missing facts (specification SpecMissing) *)

\* the facts of the full context that the context of the call lacks
MissingFacts ==
    DOMAIN (CASE kind = "trip_type" -> TripInput
              [] kind = "weight_class" -> WeightInput
              [] kind = "service_determination" -> ServiceInput
              [] kind = "tax" -> TaxInput
              [] OTHER -> ServiceFullInput) \ DOMAIN ctx

\* C22: whichever facts a context lacks, the evaluation of a loaded table
\* (trip type, weight class, service determination, tax) returns a result or
\* no match and never raises; without the trucking code there is no trip
\* type, and without the length or the weight there is no weight class.
C22_MissingFactsNeverRaise ==
    result.done =>
        /\ ~result.raised
        /\ (kind = "trip_type" /\ MissingFacts # {}) => result.none
        /\ (kind = "weight_class" /\ MissingFacts \cap {"Length", "GrossWeight"} # {})
               => result.none

\* a weight class asked for without the gross weight, and a tax rule found
\* for a context that lacks facts
C22_Witness ==
    /\ result.done
    /\ \/ kind = "weight_class" /\ "GrossWeight" \in MissingFacts /\ Len(table) > 0
       \/ kind = "tax" /\ MissingFacts # {} /\ ~result.none

----------------------------------------------------------------------------
(* Claims about the weight limits (specification SpecBoundary) *)

\* the class of the claim: A up to 20 t for 20 ft and up to 25 t for 40 ft
ClaimedClass ==
    IF ctx.container_length = "20"
    THEN IF ctx.gross_weight <= 20000 THEN "20A" ELSE "20B"
    ELSE IF ctx.gross_weight <= 25000 THEN "40A" ELSE "40B"

\* C23: a 20 ft container is 20A iff it weighs at most 20000 kg and 20B above,
\* a 40 ft container 40A iff at most 25000 kg and 40B above, and the table and
\* the hard-coded fallback give the same class for every weight.
C23_TableAndFallbackAgree ==
    /\ "table" \in result.done => result.table = ClaimedClass
    /\ "fallback" \in result.done => result.fallback = ClaimedClass
    /\ result.done = {"table", "fallback"} => result.table = result.fallback

\* what holds of the code: the 20 ft limit on both paths, and the 40 ft limit
\* of the fallback
TwentyFootLimitAgrees ==
    /\ ("table" \in result.done /\ ctx.container_length = "20")
           => result.table = ClaimedClass
    /\ "fallback" \in result.done => result.fallback = ClaimedClass

----------------------------------------------------------------------------
(* Claims about the price of an additional service (specification SpecRank) *)

\* the row the additional lookup returns: the earliest candidate of the
\* highest score
WinningRows ==
    {i \in RankCandidates :
        \A j \in RankCandidates :
            \/ RankScore(j) < RankScore(i)
            \/ RankScore(j) = RankScore(i) /\ i <= j}

\* the basis cell and the price cell (in thousandths) of a row
BasisCell(i) == Col(table[i], 18)
PriceCell(i) == ParseFloat(Col(table[i], 19)).val

\* a basis that prices by the unit
PerUnit(basis) == basis \in {"Einheit", "einheit", "Unit", "unit", "per_unit"}

\* the additional lookup has returned a row
AdditionalReturned ==
    result.done /\ kind = "price_additional" /\ RankerReached /\ RankCandidates # {}

\* the quantity and the total follow the basis of the winning row
TotalFollowsBasis(i) ==
    /\ result.value.price_per_unit = PriceCell(i)
    /\ PerUnit(BasisCell(i)) =>
           /\ result.value.quantity = ctx.quantity
           /\ result.value.total_price = PriceCell(i) * ctx.quantity
    /\ ~PerUnit(BasisCell(i)) =>
           /\ result.value.quantity = 1
           /\ result.value.total_price = PriceCell(i)

\* C24: the additional lookup returns the basis of the winning row unchanged,
\* the total price_per_unit x quantity with the supplied quantity for a
\* per-unit basis, and the total price_per_unit with quantity 1 for a flat one.
C24_BasisUnchangedTotalByBasis ==
    AdditionalReturned =>
        \A i \in WinningRows :
            /\ result.value.price_basis = BasisCell(i)
            /\ TotalFollowsBasis(i)

\* C24, amended: the basis of the winning row is returned unchanged when the
\* row names one, and as "Container" when its basis cell is empty; the total
\* is price_per_unit x quantity for a per-unit basis and price_per_unit with
\* quantity 1 otherwise.
C24_BasisOrContainerTotalByBasis ==
    AdditionalReturned =>
        \A i \in WinningRows :
            /\ result.value.price_basis =
                   (IF BasisCell(i) = "" THEN "Container" ELSE BasisCell(i))
            /\ TotalFollowsBasis(i)

\* 5 units at 50 give 250
C24_Witness ==
    /\ AdditionalReturned
    /\ ctx.quantity = 5
    /\ \E i \in WinningRows :
          /\ PerUnit(BasisCell(i))
          /\ PriceCell(i) = 50 * 1000
          /\ result.value.total_price = 250 * 1000

----------------------------------------------------------------------------
(* Claims about the follow-on service 789 (specification SpecAuto) *)

\* the entries of a list that carry a code
CountOf(services, code) == Cardinality({i \in 1..Len(services) : services[i].code = code})

\* C25: the call appends exactly one entry of service 789 iff the list has
\* service 123 and no service 789, and leaves the list unchanged otherwise; a
\* second call changes nothing, and the list never has more entries of
\* service 789 than max(1, the number in the input).
C25_Service789AppendedOnce ==
    result.calls >= 1 =>
        /\ IF CountOf(table, 123) > 0 /\ CountOf(table, 789) = 0
           THEN /\ Len(result.first) = Len(table) + 1
                /\ SubSeq(result.first, 1, Len(table)) = table
                /\ result.first[Len(result.first)].code = 789
                /\ CountOf(result.first, 789) = 1
           ELSE result.first = table
        /\ result.value = result.first
        /\ CountOf(result.value, 789) <=
               (IF CountOf(table, 789) > 1 THEN CountOf(table, 789) ELSE 1)

\* a list with service 123 and without service 789, called twice
C25_Witness ==
    /\ result.calls = 2
    /\ CountOf(table, 123) > 0
    /\ CountOf(table, 789) = 0
    /\ Len(result.value) = Len(table) + 1

----------------------------------------------------------------------------
(* Claims about the tax of a transport (specification SpecTransport) *)

\* the rule rows of the file that match the order context of the call
TransportMatching ==
    IF kind = "tax_file"
    THEN {i \in 1..Len(table) :
             /\ tax_row_scanned(table[i])
             /\ tax_row_matches(table[i], transport_order_context(ctx))}
    ELSE {}

\* the rate of a direction: 0 % for Export and Import, 19 % for Domestic
DirectionRate ==
    IF Lower(ctx.transport_direction) \in {"export", "import"} THEN 0 ELSE 19

\* the rate of a result follows apply_vat
RateFollowsApplyVat ==
    /\ result.value.tax_rate \in {0, 19}
    /\ result.value.tax_rate = 19 <=> result.value.apply_vat = "True"

\* C26: the call returns a result for every input; Export yields 0 %, Import
\* 0 % and Domestic 19 %, also from the fallback when no rule matches or there
\* is no table; and the rate of every result is 19 % iff apply_vat is true.
C26_DirectionDecidesRate ==
    result.done =>
        /\ ~result.none
        /\ result.value.tax_rate = DirectionRate
        /\ RateFollowsApplyVat

\* C26, amended: the call returns a result for every input; when no rule
\* matches or there is no table the fallback yields 0 % for Export, 0 %
\* (reverse charge) for Import and 19 % otherwise; when a rule matches the
\* result is that of the first matching rule; and the rate of every result is
\* 19 % iff apply_vat is true and 0 % otherwise.
C26_FallbackDecidesRateWithoutRule ==
    result.done =>
        /\ ~result.none
        /\ TransportMatching = {} =>
               /\ result.value.tax_rate = DirectionRate
               /\ Lower(ctx.transport_direction) = "import" =>
                      result.value.tax_case = "Reverse Charge"
        /\ TransportMatching # {} =>
               result.value = tax_result(table[Min(TransportMatching)],
                                         Min(TransportMatching) + FirstTaxRow - 1)
        /\ RateFollowsApplyVat

\* a call answered by the fallback although the file has rules, and a call
\* answered without a file
C26_Witness ==
    /\ result.done
    /\ TransportMatching = {}
    /\ kind = "tax_file" /\ Len(table) > 0
    /\ ctx.transport_direction = "Import"
    /\ result.value.tax_rate = 0

----------------------------------------------------------------------------
(* Claims about the rows of a sheet (specification SpecSheet) *)

\* the data rows of the sheet that are not separator rows
RuleRows == {p \in 1..Len(table) : \E j \in 1..Len(table[p]) : table[p][j] # ""}

\* the position among the data rows of the k-th rule row
SourcePosition(k) ==
    CHOOSE p \in RuleRows : Cardinality({q \in RuleRows : q <= p}) = k

\* the identifier of the k-th loaded rule as a position among the data rows:
\* a rule workbook counts them from 1, a price workbook counts sheet rows, of
\* which the header is the first
RowIdentifier(k) ==
    IF kind = "rule_sheet" THEN result.value[k].rule_id ELSE result.value[k].row_id - 1

\* the cells the k-th loaded rule carries
RuleCells(k) ==
    IF kind = "rule_sheet" THEN result.value[k].conditions ELSE result.value[k].data

\* C27: every loaded rule carries as its identifier the 1-based position of
\* its row in the source, and the rules are in source order, also after
\* skipped separator rows.
C27_RowIdIsSourcePosition ==
    result.done =>
        /\ Len(result.value) = Cardinality(RuleRows)
        /\ \A k \in 1..Len(result.value) :
              /\ RuleCells(k) = [h \in {SheetHeaders[j] : j \in {c \in 1..2 :
                                            table[SourcePosition(k)][c] # ""}} |->
                                    table[SourcePosition(k)][Min({c \in 1..2 :
                                                                    SheetHeaders[c] = h})]]
              /\ RowIdentifier(k) = SourcePosition(k)

\* what holds of the code: the rules are the rule rows in source order, and
\* the identifier counts the rules loaded so far
RowIdCountsLoadedRules ==
    result.done =>
        /\ Len(result.value) = Cardinality(RuleRows)
        /\ \A k \in 1..Len(result.value) : RowIdentifier(k) = k

----------------------------------------------------------------------------
(* Claims about the marker cell of a grid (specification SpecMarker) *)

\* the marker cell of the saved grid holds a hit policy token
MarkerFound == sheet_cell(table, 2, 1) \in hit_policy_tokens

\* C28: loading a grid whose marker cell holds no hit policy token fails: no
\* decision table is produced from it, and the version of the table cached
\* before stays the one in use.
C28_NoMarkerFailsAndKeepsCache ==
    (result.done /\ ~MarkerFound) =>
        /\ result.ret = NoRuleData
        /\ result.cache = ctx

\* what holds of the code: the load of a grid without a marker succeeds, the
\* grid is read as a regular sheet with its first row as the header row, and
\* the result replaces the cached version
NoMarkerLoadsRegularSheet ==
    (result.done /\ ~MarkerFound) =>
        /\ result.ret # NoRuleData
        /\ ~result.ret.sheet.is_dmn_table
        /\ result.ret.sheet.headers[1] = "TripType"
        /\ result.cache = result.ret

----------------------------------------------------------------------------
(* Claims about saves that interleave with gets (specification SpecRace) *)

\* no call is under way
Quiescent == \A t \in Threads : pc[t] = "idle"

\* what the next load_rule_file and the next get_engine return when they run
\* with nothing interleaved
NextRuleData(f) == load_rule_file(rule_cache, file_mtimes, loads, f, FALSE, TRUE).ret
NextEngine(f) == get_engine(engines, last_modified, loads, f, FALSE).ret

\* C29: the fingerprint stored for a rule is that of the content loaded:
\* however saves of the file (each leaving a newer modification time)
\* interleave with gets, once the calls under way have returned the next get
\* returns a table of the latest content.
C29_NoSaveIsMissed ==
    Quiescent =>
        \A f \in Files :
            /\ f \in DOMAIN rule_cache => NextRuleData(f).grid = fs[f].grid
            /\ f \in DOMAIN engines => NextEngine(f).grid = fs[f].grid

----------------------------------------------------------------------------
(* Claims about the order of the engines (specification SpecExec) *)

\* the result cache gives nothing for the call: it is not asked, or it has no
\* live entry under the key of the call
CacheMiss(f, input_data, use_cache) ==
    ~use_cache \/ get_cached_result(get_cache_key(f, input_data)) = ExecNone

\* what pyDMNrules yields for the call, None when it is not installed
PyResult(f, input_data) ==
    IF pyDMNrules THEN execute_with_pydmnrules(f, input_data).ret ELSE ExecNone

\* what the XLSX processor yields for the call
XlsxResult(f, input_data) ==
    execute_with_xlsx_processor(loads, f, input_data, TRUE).ret

\* C30: on a result-cache miss execute_rule returns the pyDMNrules result
\* when that is not none and then leaves the XLSX processor alone, returns
\* the XLSX processor's result when pyDMNrules is unavailable or yields none,
\* and so returns none iff both yield none; the result cache changes only in
\* a call with use_cache that returns a result, and with use_cache false the
\* call returns what the engines yield whatever the cache holds.
C30_EnginesInFixedOrder ==
    [][last'.op = "execute_rule" =>
          LET f == last'.file
              input_data == ctx'.input_data
              use_cache == ctx'.use_cache
              py == PyResult(f, input_data)
              xl == XlsxResult(f, input_data)
          IN /\ CacheMiss(f, input_data, use_cache) =>
                   /\ py # ExecNone =>
                          /\ result'.value = py
                          /\ rule_cache' = rule_cache
                          /\ file_mtimes' = file_mtimes
                   /\ py = ExecNone => result'.value = xl
                   /\ result'.value = ExecNone <=> (py = ExecNone /\ xl = ExecNone)
             /\ redis' # redis => (use_cache /\ result'.value # ExecNone)
             /\ ~use_cache => redis' = redis]_vars

\* pyDMNrules has answered a call with use_cache: the result is in the result
\* cache and the XLSX processor has loaded nothing
C30_Witness ==
    /\ last.op = "execute_rule"
    /\ pyDMNrules
    /\ result.done
    /\ ctx.use_cache
    /\ result.value # ExecNone
    /\ get_cache_key(last.file, ctx.input_data) \in DOMAIN redis
    /\ rule_cache = EmptyDict

\* the XLSX processor has answered a call without use_cache while an entry
\* of an earlier call is in the result cache
FallbackWithoutCache ==
    /\ last.op = "execute_rule"
    /\ ~pyDMNrules
    /\ result.done
    /\ ~ctx.use_cache
    /\ result.value # ExecNone
    /\ last.file \in DOMAIN rule_cache
    /\ get_cache_key(last.file, ctx.input_data) \in DOMAIN redis

====
